---- MODULE Spec2Model ----
(***************************************************************************)
(* Model of benchcoin's benchmark identity, history and comparison code:   *)
(* bench/nightly.py (series identity, NightlyHistory), bench/report.py     *)
(* (comparison against the nightly history) and bench/compare.py (batch    *)
(* comparison).                                                            *)
(*                                                                         *)
(* Python strings are sequences of one-character strings, so that the      *)
(* string operations of the code (lower, replace, split, slicing, int(),   *)
(* lexicographic comparison) are computed and not assumed.  Python dicts   *)
(* are functions whose DOMAIN is the set of keys present.  Durations are   *)
(* whole seconds; a speedup is kept in tenths of a percent (10.0 => 100).  *)
(***************************************************************************)
EXTENDS Integers, Sequences, FiniteSets, TLC

VARIABLES
    results,    \* NightlyHistory.results of the history object in use
    last,       \* what the last operation on the history did and returned
    cmp,        \* input and outcome of a batch comparison (ComparePhase.run)
    file,       \* the persisted history document as it is on disk
    wr,         \* the saving process: position in save() and what it writes
    rd,         \* the loading process: position in _load() and what it read
    proc,       \* the invocations of nightly append: position and history held
    cfg,        \* a benchmark configuration and what was computed from it
    ser         \* results whose series identity is computed, and the outcome

vars == <<results, last, cmp, file, wr, rd, proc, cfg, ser>>

(***************************************************************************)
(* Strings                                                                 *)
(***************************************************************************)

\* Characters in ascending code point order (the part of ASCII the inputs use).
Alphabet ==
    << " ", "(", ")", "+", "-", ".", "0", "1", "2", "3", "4", "5", "6", "7",
       "8", "9", "A", "B", "C", "D", "E", "F", "G", "H", "I", "J", "K", "L",
       "M", "N", "O", "P", "Q", "R", "S", "T", "U", "V", "W", "X", "Y", "Z",
       "_", "a", "b", "c", "d", "e", "f", "g", "h", "i", "j", "k", "l", "m",
       "n", "o", "p", "q", "r", "s", "t", "u", "v", "w", "x", "y", "z", "|" >>

Ord(c) == CHOOSE i \in 1..Len(Alphabet) : Alphabet[i] = c

Digits == <<"0", "1", "2", "3", "4", "5", "6", "7", "8", "9">>

IsDigit(c) == \E i \in 1..10 : Digits[i] = c

DigitVal(c) == (CHOOSE i \in 1..10 : Digits[i] = c) - 1

\* str < str: lexicographic by code point, a proper prefix being smaller.
StrLess(s, t) ==
    \E i \in 1..Len(t) :
        /\ \A j \in 1..(i - 1) : j <= Len(s) /\ s[j] = t[j]
        /\ \/ i = Len(s) + 1
           \/ i <= Len(s) /\ Ord(s[i]) < Ord(t[i])

\* s[i:] starts with p
StartsWithAt(s, p, i) ==
    /\ i + Len(p) - 1 <= Len(s)
    /\ \A j \in 1..Len(p) : s[i + j - 1] = p[j]

EndsWith(s, p) == Len(p) <= Len(s) /\ StartsWithAt(s, p, Len(s) - Len(p) + 1)

\* str.replace(old, new): leftmost non-overlapping occurrences, old non-empty.
RECURSIVE ReplaceFrom(_, _, _, _)
ReplaceFrom(s, old, new, i) ==
    IF i > Len(s) THEN << >>
    ELSE IF StartsWithAt(s, old, i)
         THEN new \o ReplaceFrom(s, old, new, i + Len(old))
         ELSE <<s[i]>> \o ReplaceFrom(s, old, new, i + 1)

Replace(s, old, new) == ReplaceFrom(s, old, new, 1)

\* str.strip(): the model's only whitespace character is the space.
RECURSIVE Strip(_)
Strip(s) ==
    IF s = << >> THEN s
    ELSE IF Head(s) = " " THEN Strip(Tail(s))
    ELSE IF s[Len(s)] = " " THEN Strip(SubSeq(s, 1, Len(s) - 1))
    ELSE s

RECURSIVE DigitsValue(_)
DigitsValue(s) ==
    IF s = << >> THEN 0
    ELSE 10 * DigitsValue(SubSeq(s, 1, Len(s) - 1)) + DigitVal(s[Len(s)])

\* The literals int(str) accepts: optional sign, digits, single underscores
\* between digits, surrounding whitespace.
IntBody(s) == IF s # << >> /\ Head(s) \in {"+", "-"} THEN Tail(s) ELSE s

IsIntLiteral(s) ==
    LET b == IntBody(Strip(s)) IN
    /\ b # << >>
    /\ \A i \in 1..Len(b) : IsDigit(b[i]) \/ b[i] = "_"
    /\ b[1] # "_" /\ b[Len(b)] # "_"
    /\ \A i \in 1..(Len(b) - 1) : ~(b[i] = "_" /\ b[i + 1] = "_")

\* int(str) for a string IsIntLiteral accepts.
ParseInt(s) ==
    LET t == Strip(s)
        v == DigitsValue(Replace(IntBody(t), <<"_">>, << >>))
    IN IF t # << >> /\ Head(t) = "-" THEN 0 - v ELSE v

Uppers ==
    << "A", "B", "C", "D", "E", "F", "G", "H", "I", "J", "K", "L", "M", "N",
       "O", "P", "Q", "R", "S", "T", "U", "V", "W", "X", "Y", "Z" >>

Lowers ==
    << "a", "b", "c", "d", "e", "f", "g", "h", "i", "j", "k", "l", "m", "n",
       "o", "p", "q", "r", "s", "t", "u", "v", "w", "x", "y", "z" >>

LowerChar(c) ==
    IF \E i \in 1..26 : Uppers[i] = c
    THEN Lowers[CHOOSE i \in 1..26 : Uppers[i] = c]
    ELSE c

\* str.lower()
Lower(s) == [i \in 1..Len(s) |-> LowerChar(s[i])]

\* sub in s
Contains(s, sub) == \E i \in 1..(Len(s) + 1) : StartsWithAt(s, sub, i)

\* s[:n]
Prefix(s, n) == SubSeq(s, 1, IF Len(s) < n THEN Len(s) ELSE n)

\* str.split(sep) for a one-character sep: the parts, empty ones included.
RECURSIVE SplitFrom(_, _, _, _)
SplitFrom(s, sep, i, cur) ==
    IF i > Len(s) THEN <<cur>>
    ELSE IF s[i] = sep THEN <<cur>> \o SplitFrom(s, sep, i + 1, << >>)
    ELSE SplitFrom(s, sep, i + 1, Append(cur, s[i]))

Split(s, sep) == SplitFrom(s, sep, 1, << >>)

\* str.split(): the parts between runs of whitespace, none of them empty.
SplitWhitespace(s) == SelectSeq(Split(s, " "), LAMBDA part : part # << >>)

\* "".join(parts)
RECURSIVE Join(_)
Join(parts) == IF parts = << >> THEN << >> ELSE Head(parts) \o Join(Tail(parts))

\* str(n) for an int
RECURSIVE NatStr(_)
NatStr(n) ==
    IF n < 10 THEN <<Digits[n + 1]>>
    ELSE NatStr(n \div 10) \o <<Digits[(n % 10) + 1]>>

IntStr(n) == IF n < 0 THEN <<"-">> \o NatStr(0 - n) ELSE NatStr(n)

\* round(n / d) for d > 0: to the nearest integer, a tie to the even one.
RoundHalfEven(n, d) ==
    LET q == n \div d
        r == n % d
    IN IF 2 * r < d THEN q
       ELSE IF 2 * r > d THEN q + 1
       ELSE IF q % 2 = 0 THEN q ELSE q + 1

(***************************************************************************)
(* Dicts                                                                   *)
(***************************************************************************)

\* dict.get(key, default)
Get(d, k, default) == IF k \in DOMAIN d THEN d[k] ELSE default

EmptyDict == [k \in {} |-> 0]

None == << >>

Some(x) == <<x>>

(***************************************************************************)
(* Inputs                                                                  *)
(***************************************************************************)

\* Bounds of the model: the number of entries a history may hold, and the
\* number of entries of a history a report is made against.
MaxResults == 3

MaxBaselines == 2

\* Logical dates (YYYY-MM-DD), as the strings the code compares.
DateOf(d) == <<"2", "0", "2", "5", "-", "0", "1", "-", "0", d>>

Dates == {DateOf("1"), DateOf("2"), DateOf("3")}

Dbcaches == {450, 32000}

\* A benchmark config as NightlyPhase.append builds it from
\* BenchmarkConfig.to_dict, the dbcache argument and the instrumentation mode.
ConfigDict(dbcache, start, stop) ==
    [start_height |-> start,
     bitcoind |-> [stopatheight |-> stop, dbcache |-> dbcache],
     instrumentation |-> "uninstrumented"]

\* The measurements appended: a commit, the mean the harness reported for it
\* (0 when its output has no mean) and the machine it ran on.
Measurements ==
    { [commit |-> "abc1234", mean |-> 100, machine |-> "ryzen"],
      [commit |-> "abc1234", mean |-> 0, machine |-> "m2"],
      [commit |-> "def5678", mean |-> 300, machine |-> "ryzen"] }

NightlyResult(date, commit, mean, stddev, runs, config, machine) ==
    [date |-> date, commit |-> commit, mean |-> mean, stddev |-> stddev,
     runs |-> runs, config |-> config, machine |-> machine]

\* The results an append may be given.
Inputs ==
    {NightlyResult(d, m.commit, m.mean, 5, 3,
                   ConfigDict(db, 840000, 900000), m.machine) :
        d \in Dates, db \in Dbcaches, m \in Measurements}

(***************************************************************************)
(* NightlyResult and NightlyHistory                                        *)
(***************************************************************************)

\* NightlyResult.dbcache
Dbcache(r) == Get(Get(r.config, "bitcoind", EmptyDict), "dbcache", 0)

\* A duplicate test that leaves the commit out.
SameDateAndDbcache(a, b) == a.date = b.date /\ Dbcache(a) = Dbcache(b)

\* The duplicate test of NightlyHistory.append.
SameTriple(a, b) ==
    a.date = b.date /\ a.commit = b.commit /\ Dbcache(a) = Dbcache(b)

\* list.remove(x): drops the first element equal to x.
ListRemove(s, x) ==
    LET i == CHOOSE k \in 1..Len(s) :
                 s[k] = x /\ \A j \in 1..(k - 1) : s[j] # x
    IN SubSeq(s, 1, i - 1) \o SubSeq(s, i + 1, Len(s))

\* A sort key that leaves the cache size out.
SortKeyByDate(a, b) == StrLess(a.date, b.date)

\* The sort key (r.date, r.dbcache), compared as Python compares tuples.
SortKeyLess(a, b) ==
    \/ StrLess(a.date, b.date)
    \/ a.date = b.date /\ Dbcache(a) < Dbcache(b)

\* list.sort(key=...) is stable: an element goes before the first element whose
\* key is greater, so after every element with an equal key that came earlier.
InsertSorted(s, x) ==
    LET P == {k \in 1..Len(s) : SortKeyLess(x, s[k])}
        i == IF P = {} THEN Len(s) + 1
             ELSE CHOOSE k \in P : \A j \in P : k <= j
    IN SubSeq(s, 1, i - 1) \o <<x>> \o SubSeq(s, i, Len(s))

RECURSIVE SortFrom(_, _)
SortFrom(acc, rest) ==
    IF rest = << >> THEN acc
    ELSE SortFrom(InsertSorted(acc, Head(rest)), Tail(rest))

\* An append that leaves the list as it is, unsorted.
SortResultsSkipped(s) == s

SortResults(s) == SortFrom(<< >>, s)

\* A duplicate scan that never finds anything.
FirstDuplicateNever(s, r) == None

\* The entry the duplicate scan of append stops at, if any.
FirstDuplicate(s, r) ==
    LET D == {k \in 1..Len(s) : SameTriple(s[k], r)}
    IN IF D = {} THEN None
       ELSE Some(s[CHOOSE k \in D : \A j \in D : k <= j])

\* An append that removes the duplicate and forgets the new result.
AppendResultForgotten(s, r) ==
    LET dup == FirstDuplicate(s, r)
    IN IF dup = None THEN s ELSE ListRemove(s, dup[1])

\* NightlyHistory.append: the new value of self.results.
AppendResult(s, r) ==
    LET dup == FirstDuplicate(s, r)
        kept == IF dup = None THEN s ELSE ListRemove(s, dup[1])
    IN SortResults(Append(kept, r))

\* The identifiers get_latest is called with: an int, or a str.
IntId(n) == [kind |-> "int", val |-> n]

StrId(s) == [kind |-> "str", val |-> s]

\* A lookup that takes the first matching entry.
FirstMatching(s, dbcache) ==
    LET matching == SelectSeq(s, LAMBDA r : Dbcache(r) = dbcache)
    IN IF matching = << >> THEN None ELSE Some(matching[1])

\* NightlyHistory.get_latest: None, or the last entry whose dbcache matches.
LastMatching(s, dbcache) ==
    LET matching == SelectSeq(s, LAMBDA r : Dbcache(r) = dbcache)
    IN IF matching = << >> THEN None ELSE Some(matching[Len(matching)])

\* A lookup that gives up on every str identifier.
GetLatestIntOnly(s, id) ==
    IF id.kind = "str" THEN None ELSE LastMatching(s, id.val)

GetLatest(s, id) ==
    IF id.kind = "str"
    THEN IF IsIntLiteral(id.val) THEN LastMatching(s, ParseInt(id.val))
         ELSE None
    ELSE LastMatching(s, id.val)

(***************************************************************************)
(* Series identity                                                         *)
(***************************************************************************)

\* The machine dict stored with a result, by the name the model gives it
\* (MachineSpecs.to_dict; total_ram_gb in tenths of a GB, as _get_total_ram_gb
\* rounds it).
MachineSpecs(name) ==
    CASE name = "ryzen" ->
           [cpu_model |-> <<"A", "M", "D", " ", "R", "y", "z", "e", "n", " ",
               "7", " ", "7", "7", "0", "0", " ", "8", "-", "C", "o", "r",
               "e", " ", "P", "r", "o", "c", "e", "s", "s", "o", "r">>,
            architecture |-> "x86_64", cpu_cores |-> 16,
            disk_type |-> <<"N", "V", "M", "e", " ", "S", "S", "D">>,
            os_kernel |-> <<"6", ".", "6", ".", "1", "2", "-", "g", "e", "n",
               "e", "r", "i", "c">>,
            total_ram_gb |-> 627]
      [] name = "m2" ->
           [cpu_model |-> <<"A", "p", "p", "l", "e", " ", "M", "2", " ", "P",
               "r", "o">>,
            architecture |-> "arm64", cpu_cores |-> 12,
            disk_type |-> <<"S", "A", "T", "A", " ", "S", "S", "D">>,
            os_kernel |-> <<"2", "3", ".", "1", ".", "0">>,
            total_ram_gb |-> 160]
      [] OTHER -> EmptyDict

Unknown == <<"u", "n", "k", "n", "o", "w", "n">>

BoilerplateWords == <<<<"p", "r", "o", "c", "e", "s", "s", "o", "r">>, <<"(",
    "r", ")">>, <<"(", "t", "m", ")">>, <<"a", "m", "d">>, <<"i", "n", "t",
    "e", "l">>>>

RECURSIVE RemoveWords(_, _)
RemoveWords(model, words) ==
    IF words = << >> THEN model
    ELSE RemoveWords(Replace(model, Head(words), << >>), Tail(words))

\* _normalize_cpu_model
NormalizeCpuModel(cpu_model) ==
    LET model == RemoveWords(Lower(cpu_model), BoilerplateWords)
        parts == SelectSeq([i \in 1..Len(SplitWhitespace(model)) |->
                               Strip(SplitWhitespace(model)[i])],
                           LAMBDA part : part # << >>)
    IN Prefix(Replace(Replace(Join(parts), <<"-">>, << >>), <<" ">>, << >>), 25)

\* Buckets downwards instead of to the nearest multiple.
BucketRamDown(ram) ==
    IF ram <= 0 THEN 0
    ELSE IF ram <= 320 THEN (ram \div 80) * 8
    ELSE (ram \div 320) * 32

\* _bucket_ram, on tenths of a GB
BucketRam(ram) ==
    IF ram <= 0 THEN 0
    ELSE IF ram <= 320 THEN RoundHalfEven(ram, 80) * 8
    ELSE RoundHalfEven(ram, 320) * 32

\* _normalize_kernel
NormalizeKernel(kernel) ==
    LET parts == Split(kernel, ".")
    IN IF Len(parts) >= 2
       THEN parts[1] \o <<".">> \o Split(parts[2], "-")[1]
       ELSE Split(kernel, "-")[1]

\* _normalize_disk_type
NormalizeDiskType(disk_type) ==
    LET disk_lower == Lower(disk_type)
    IN IF Contains(disk_lower, <<"n", "v", "m", "e">>) THEN <<"n", "v", "m",
        "e">>
       ELSE IF Contains(disk_lower, <<"s", "s", "d">>) THEN <<"s", "s", "d">>
       ELSE IF Contains(disk_lower, <<"h", "d", "d">>) THEN <<"h", "d", "d">>
       ELSE Prefix(disk_lower, 10)

\* A key that also tells machines apart by their number of cores.
SeriesKeyOfCores(machine, config, dbcacheProperty) ==
    NormalizeCpuModel(Get(machine, "cpu_model", Unknown))
        \o IntStr(Get(machine, "cpu_cores", 0))
        \o IntStr(Get(Get(config, "bitcoind", EmptyDict), "dbcache",
                      dbcacheProperty))

\* series_key, for the machine dict, the config dict and the dbcache property
SeriesKeyOf(machine, config, dbcacheProperty) ==
    LET bitcoind == Get(config, "bitcoind", EmptyDict)
        cpu == NormalizeCpuModel(Get(machine, "cpu_model", Unknown))
        ram == BucketRam(Get(machine, "total_ram_gb", 0))
        disk == NormalizeDiskType(Get(machine, "disk_type", Unknown))
        kernel == NormalizeKernel(Get(machine, "os_kernel", Unknown))
        dbcache == Get(bitcoind, "dbcache", dbcacheProperty)
        start == Get(config, "start_height", 0)
        stop == Get(bitcoind, "stopatheight", 0)
    IN cpu \o <<"|">> \o IntStr(ram) \o <<"G", "B">> \o <<"|">> \o disk \o
        <<"|">>
       \o kernel \o <<"|">> \o <<"d", "b">> \o IntStr(dbcache) \o <<"|">>
       \o IntStr(start) \o <<"-">> \o IntStr(stop)

\* series_key(result)
SeriesKey(r) == SeriesKeyOf(MachineSpecs(r.machine), r.config, Dbcache(r))

(***************************************************************************)
(* The history in use: appends and lookups                                 *)
(***************************************************************************)

\* The identifiers the lookups of the model are made with.
LookupIds ==
    {IntId(db) : db \in Dbcaches}
    \cup {StrId(s) : s \in {<<"4", "5", "0">>, <<"3", "2", "0", "0", "0">>,
                            <<"d", "e", "f", "a", "u", "l", "t">>}}

Idle == [op |-> "none"]

\* The history file before the first save: it does not exist.
Missing == [exists |-> FALSE]

\* history.append(result); the warning logged tells the entry that was replaced.
AppendOp(r, cap) ==
    /\ \/ Len(results) < cap
       \/ FirstDuplicate(results, r) # None
    /\ results' = AppendResult(results, r)
    /\ last' = [op |-> "append", arg |-> r,
                removed |-> FirstDuplicate(results, r)]
    /\ UNCHANGED <<cmp, file, wr, rd, proc, cfg, ser>>

DoAppend(r) == AppendOp(r, MaxResults)

\* history.get_latest(id)
DoGetLatest(id) ==
    /\ last' = [op |-> "get_latest", id |-> id, ret |-> GetLatest(results, id)]
    /\ UNCHANGED <<results, cmp, file, wr, rd, proc, cfg, ser>>

HistoryOp ==
    \/ \E r \in Inputs : DoAppend(r)
    \/ \E id \in LookupIds : DoGetLatest(id)

Init ==
    /\ results = << >>
    /\ last = Idle
    /\ cmp = Idle
    /\ file = Missing
    /\ wr = Idle
    /\ rd = Idle
    /\ proc = Idle
    /\ cfg = Idle
    /\ ser = Idle

Next == HistoryOp

Spec == Init /\ [][Next]_vars

(***************************************************************************)
(* Properties of the history                                               *)
(***************************************************************************)

Range(s) == {s[k] : k \in 1..Len(s)}

\* The (date, commit, cache-size) triple of a stored result.
Triple(r) == <<r.date, r.commit, r.config.bitcoind.dbcache>>

\* (date, cache size) of a is smaller than or equal to that of b.
DateCacheLeq(a, b) ==
    \/ StrLess(a.date, b.date)
    \/ /\ a.date = b.date
       /\ a.config.bitcoind.dbcache <= b.config.bitcoind.dbcache

\* The cache size an identifier of LookupIds stands for; -1 for no number.
IdCache(id) ==
    CASE id = IntId(450) -> 450
      [] id = IntId(32000) -> 32000
      [] id = StrId(<<"4", "5", "0">>) -> 450
      [] id = StrId(<<"3", "2", "0", "0", "0">>) -> 32000
      [] OTHER -> -1

MatchingEntries(id) ==
    {k \in 1..Len(results) : results[k].config.bitcoind.dbcache = IdCache(id)}

\* C1: a history built by appends from the empty one never holds two results
\* with the same (date, commit, cache-size) triple.
C1_OnePerTriple ==
    \A i, j \in 1..Len(results) :
        Triple(results[i]) = Triple(results[j]) => i = j

\* An append has replaced an entry of a history that holds other entries too.
C1_Witness ==
    /\ last.op = "append"
    /\ last.removed # None
    /\ Len(results) >= 2

\* C2: after any sequence of appends the results are sorted ascending by
\* (date, cache size): each entry's pair is <= that of the entry after it.
C2_Sorted ==
    \A i \in 1..(Len(results) - 1) : DateCacheLeq(results[i], results[i + 1])

\* An append of a result that does not belong at the end of a full history.
C2_Witness ==
    /\ last.op = "append"
    /\ Len(results) = MaxResults
    /\ results[Len(results)] # last.arg
    /\ results[1] # last.arg

\* C3: an append of a result whose triple is present leaves the size unchanged
\* and puts the new result, whole, in the place of the old one; an append of a
\* result whose triple is absent adds one entry; either way every entry with
\* another triple is kept.
C3_AppendStep ==
    LET r == last'.arg
        present == \E k \in 1..Len(results) : Triple(results[k]) = Triple(r)
    IN last'.op = "append" =>
        /\ r \in Range(results')
        /\ \A e \in Range(results') : Triple(e) = Triple(r) => e = r
        /\ \A e \in Range(results) :
               Triple(e) # Triple(r) => e \in Range(results')
        /\ Len(results') = IF present THEN Len(results) ELSE Len(results) + 1

C3_AppendDedup == [][C3_AppendStep]_vars

\* An append has replaced an entry by a result that differs from it.
C3_Witness ==
    /\ last.op = "append"
    /\ last.removed # None
    /\ last.removed[1] # last.arg
    /\ last.arg \in Range(results)
    /\ last.removed[1] \notin Range(results)

\* C5: the entry get_latest returns matches the identifier and no matching
\* entry has a later date.
C5_LatestHasGreatestDate ==
    (last.op = "get_latest" /\ last.ret # None) =>
        /\ \E k \in MatchingEntries(last.id) : results[k] = last.ret[1]
        /\ \A k \in MatchingEntries(last.id) :
               ~StrLess(last.ret[1].date, results[k].date)

\* Entries dated 01, 02 and 03 match, and the lookup returned the one of 03.
C5_Witness ==
    /\ last.op = "get_latest"
    /\ last.ret # None
    /\ last.ret[1].date = DateOf("3")
    /\ {results[k].date : k \in MatchingEntries(last.id)} = Dates

\* C6: get_latest returns None exactly when no stored entry matches the
\* identifier (the history may be empty, the identifier a str that is no
\* number), and an entry otherwise.
C6_NoneIffNoMatch ==
    last.op = "get_latest" =>
        (last.ret = None <=> MatchingEntries(last.id) = {})

\* A lookup by a str that is no number, in a history that holds entries.
C6_Witness ==
    /\ last.op = "get_latest"
    /\ last.id = StrId(<<"d", "e", "f", "a", "u", "l", "t">>)
    /\ last.ret = None
    /\ results # << >>

(***************************************************************************)
(* Comparison against the nightly history (bench/report.py)                *)
(***************************************************************************)

\* The same with the difference taken the other way round.
SpeedupPercentInverted(baseline_mean, candidate_mean) ==
    RoundHalfEven((candidate_mean - baseline_mean) * 1000, baseline_mean)

\* round(((baseline - candidate) / baseline) * 100, 1), in tenths of a percent
SpeedupPercent(baseline_mean, candidate_mean) ==
    RoundHalfEven((baseline_mean - candidate_mean) * 1000, baseline_mean)

\* The speedup of a report entry: None unless the baseline mean is positive.
NightlySpeedup(nightly_mean, pr_mean) ==
    IF nightly_mean > 0 THEN Some(SpeedupPercent(nightly_mean, pr_mean))
    ELSE None

BenchmarkRun(network, mean, stddev) ==
    [network |-> network, mean |-> mean, stddev |-> stddev]

\* The comparison entry of one run against what get_latest returned.
\* (series_label, a display string, is left out.)
ComparisonEntry(run, commit, nightly) ==
    IF nightly # None
    THEN [pr_mean |-> run.mean,
          pr_stddev |-> run.stddev,
          pr_commit |-> commit,
          nightly_mean |-> Some(nightly[1].mean),
          nightly_stddev |-> nightly[1].stddev,
          nightly_date |-> Some(nightly[1].date),
          nightly_commit |-> Some(nightly[1].commit),
          speedup_percent |-> NightlySpeedup(nightly[1].mean, run.mean),
          series_key |-> SeriesKey(nightly[1])]
    ELSE [pr_mean |-> run.mean,
          pr_stddev |-> run.stddev,
          pr_commit |-> commit,
          nightly_mean |-> None,
          nightly_date |-> None,
          nightly_commit |-> None,
          speedup_percent |-> None]

\* Network names of runs and the mode suffixes the report looks for.
Net32000Uninstrumented ==
    <<"3", "2", "0", "0", "0", "-", "u", "n", "i", "n",
      "s", "t", "r", "u", "m", "e", "n", "t", "e", "d">>

Net450Uninstrumented ==
    <<"4", "5", "0", "-", "u", "n", "i", "n", "s",
      "t", "r", "u", "m", "e", "n", "t", "e", "d">>

SuffixUninstrumented ==
    <<"-", "u", "n", "i", "n", "s", "t",
      "r", "u", "m", "e", "n", "t", "e", "d">>

SuffixInstrumented ==
    <<"-", "i", "n", "s", "t", "r",
      "u", "m", "e", "n", "t", "e", "d">>

SuffixFalse == <<"-", "f", "a", "l", "s", "e">>

SuffixTrue == <<"-", "t", "r", "u", "e">>

\* The config name of a run: its network name without the mode suffix.
BaseConfig(network) ==
    Replace(Replace(network, SuffixFalse, << >>),
            SuffixUninstrumented, << >>)

IsInstrumented(network) ==
    EndsWith(network, SuffixTrue) \/ EndsWith(network, SuffixInstrumented)

\* comparison[config] = entry
DictSet(d, k, v) ==
    [x \in DOMAIN d \cup {k} |-> IF x = k THEN v ELSE d[x]]

RECURSIVE CompareRuns(_, _, _, _)
CompareRuns(history, runs, commit, comparison) ==
    IF runs = << >> THEN comparison
    ELSE LET run == Head(runs)
             config == BaseConfig(run.network)
             nightly == GetLatest(history, StrId(config))
         IN CompareRuns(history, Tail(runs), commit,
                IF IsInstrumented(run.network) THEN comparison
                ELSE DictSet(comparison, config,
                             ComparisonEntry(run, commit, nightly)))

\* ReportGenerator._calculate_nightly_comparison; nightly_history is None or
\* holds the results loaded from the history document.
CalculateNightlyComparison(nightly_history, runs, commit) ==
    IF nightly_history = None THEN EmptyDict
    ELSE CompareRuns(nightly_history[1], runs, commit, EmptyDict)

\* ReportPhase.__init__: there is a history only if the document exists, and
\* it exists once a nightly append has saved it.
LoadedHistory == IF results = << >> THEN None ELSE Some(results)

\* The runs of the reports made.
RunLists ==
    { <<BenchmarkRun(<<"4", "5", "0", "-", "f", "a", "l", "s", "e">>, 90, 2)>>,
      <<BenchmarkRun(<<"4", "5", "0", "-", "t", "r", "u", "e">>, 90, 2),
        BenchmarkRun(Net32000Uninstrumented, 110, 2)>>,
      <<BenchmarkRun(<<"d", "e", "f", "a", "u", "l", "t">>, 100, 2),
        BenchmarkRun(<<"4", "5", "0">>, 110, 2),
        BenchmarkRun(Net32000Uninstrumented, 110, 2)>>,
      <<BenchmarkRun(<<"4", "5", "0", "-", "f", "a", "l", "s", "e">>, 90, 2),
        BenchmarkRun(Net450Uninstrumented, 100, 2)>> }

\* A report of runs measured on machine host, at commit, against the history.
DoCompare(runs, host, commit) ==
    /\ last' = [op |-> "compare", runs |-> runs, host |-> host,
                ret |-> CalculateNightlyComparison(LoadedHistory, runs, commit)]
    /\ UNCHANGED <<results, cmp, file, wr, rd, proc, cfg, ser>>

ReportNext ==
    \/ \E r \in Inputs : AppendOp(r, MaxBaselines)
    \/ \E runs \in RunLists, host \in {"ryzen", "m2"} :
           DoCompare(runs, host, "fedcba9")

SpecReport == Init /\ [][ReportNext]_vars

(***************************************************************************)
(* Batch comparison (bench/compare.py)                                     *)
(***************************************************************************)

\* Bound of the model: the number of results files of one comparison.
MaxFiles == 2

BenchmarkEntry(command, mean, stddev) ==
    [command |-> command, mean |-> mean, stddev |-> stddev]

\* The results files compared: None for a file that does not exist, else what
\* _parse_results finds in it: the entries of a base/head benchmark, of a
\* second one of the same commits, of a benchmark of one command, and of a
\* file without results.
ResultsFiles ==
    { Some(<<BenchmarkEntry("base", 100, 2), BenchmarkEntry("head", 90, 1)>>),
      Some(<<BenchmarkEntry("base", 0, 0), BenchmarkEntry("head", 110, 3)>>),
      Some(<<BenchmarkEntry("head", 300, 3)>>),
      Some(<< >>),
      None }

\* all_entries: the entries of the files, in the order of the files
RECURSIVE AllEntries(_)
AllEntries(files) ==
    IF files = << >> THEN << >>
    ELSE Head(files)[1] \o AllEntries(Tail(files))

RECURSIVE SeqsUpTo(_, _)
SeqsUpTo(S, n) ==
    IF n = 0 THEN {<< >>}
    ELSE LET shorter == SeqsUpTo(S, n - 1)
         IN shorter \cup {Append(q, x) : q \in shorter, x \in S}

\* The baseline argument: None, or a name.
BaselineArgs == {None, Some("base"), Some("head"), Some("master")}

\* ComparePhase._calculate_speedup, in tenths of a percent
CalculateSpeedup(baseline_mean, other_mean) ==
    IF baseline_mean = 0 THEN 0
    ELSE SpeedupPercent(baseline_mean, other_mean)

Comparison(name, mean, baseline_mean, speedup_percent, stddev) ==
    [name |-> name, mean |-> mean, baseline_mean |-> baseline_mean,
     speedup_percent |-> speedup_percent, stddev |-> stddev]

\* A search for the baseline entry that keeps the last entry of the name.
LastNamed(entries, name) ==
    LET N == {k \in 1..Len(entries) : entries[k].command = name}
    IN IF N = {} THEN None
       ELSE Some(entries[CHOOSE k \in N : \A j \in N : j <= k])

\* The baseline entry: the first entry whose command is the baseline name.
FirstNamed(entries, name) ==
    LET N == {k \in 1..Len(entries) : entries[k].command = name}
    IN IF N = {} THEN None
       ELSE Some(entries[CHOOSE k \in N : \A j \in N : k <= j])

\* The comparisons of the entries not named like the baseline, in order.
RECURSIVE Comparisons(_, _, _)
Comparisons(entries, baseline, baseline_entry) ==
    IF entries = << >> THEN << >>
    ELSE LET entry == Head(entries)
             rest == Comparisons(Tail(entries), baseline, baseline_entry)
         IN IF entry.command = baseline THEN rest
            ELSE <<Comparison(entry.command, entry.mean, baseline_entry.mean,
                              CalculateSpeedup(baseline_entry.mean, entry.mean),
                              entry.stddev)>> \o rest

Raise(error) == [status |-> "raised", error |-> error]

\* ComparePhase.run, on the entries parsed from each results file
CompareRun(files, baseline_arg) ==
    LET all_entries == AllEntries(files)
        baseline == IF baseline_arg = None THEN all_entries[1].command
                    ELSE baseline_arg[1]
        baseline_entry == FirstNamed(all_entries, baseline)
    IN IF files = << >> THEN Raise("ValueError")
       ELSE IF \E k \in 1..Len(files) : files[k] = None
            THEN Raise("FileNotFoundError")
       ELSE IF all_entries = << >> THEN Raise("ValueError")
       ELSE IF baseline_entry = None THEN Raise("ValueError")
       ELSE [status |-> "returned",
             baseline |-> baseline,
             comparisons |-> Comparisons(all_entries, baseline,
                                         baseline_entry[1])]

\* A comparison is asked for, then made.
CompareInit ==
    /\ \E files \in SeqsUpTo(ResultsFiles, MaxFiles), b \in BaselineArgs :
           cmp = [op |-> "asked", files |-> files, baseline |-> b]
    /\ results = << >>
    /\ last = Idle
    /\ file = Missing
    /\ wr = Idle
    /\ rd = Idle
    /\ proc = Idle
    /\ cfg = Idle
    /\ ser = Idle

DoCompareRun ==
    /\ cmp.op = "asked"
    /\ cmp' = [op |-> "done", files |-> cmp.files, baseline |-> cmp.baseline,
               ret |-> CompareRun(cmp.files, cmp.baseline)]
    /\ UNCHANGED <<results, last, file, wr, rd, proc, cfg, ser>>

\* The next comparison is asked for.
DoCompareAgain ==
    /\ cmp.op = "done"
    /\ \E files \in SeqsUpTo(ResultsFiles, MaxFiles), b \in BaselineArgs :
           cmp' = [op |-> "asked", files |-> files, baseline |-> b]
    /\ UNCHANGED <<results, last, file, wr, rd, proc, cfg, ser>>

CompareNext == DoCompareRun \/ DoCompareAgain

SpecCompare == CompareInit /\ [][CompareNext]_vars

(***************************************************************************)
(* Properties of the comparison against the history                        *)
(***************************************************************************)

\* The cache size a config name of the reports stands for; -1 for no number.
ConfigCache(config) ==
    CASE config = <<"4", "5", "0">> -> 450
      [] config = <<"3", "2", "0", "0", "0">> -> 32000
      [] OTHER -> -1

\* The series a run of config, measured on machine host over the block range
\* of the benchmark, belongs to.
CandidateSeriesKey(host, config) ==
    SeriesKeyOf(MachineSpecs(host),
                ConfigDict(ConfigCache(config), 840000, 900000),
                ConfigCache(config))

\* C4 (as claimed): the baseline a run is compared against has the series key
\* of the run itself.
C4_BaselineOfOwnSeries ==
    last.op = "compare" =>
        \A c \in DOMAIN last.ret :
            last.ret[c].nightly_mean # None =>
                last.ret[c].series_key = CandidateSeriesKey(last.host, c)

\* t tenths of a percent is round((b - c) / b * 100, 1): the nearest tenth,
\* the even one of two equally near.
IsRoundedSpeedup(t, b, c) ==
    LET err == t * b - (b - c) * 1000
        abs == IF err < 0 THEN 0 - err ELSE err
    IN /\ 2 * abs <= b
       /\ 2 * abs = b => t % 2 = 0

\* C7: an entry with a baseline of non-zero mean carries the rounded speedup,
\* positive only if the run was faster than the baseline; an entry without
\* baseline, or with a baseline of mean zero, carries no speedup; a run has no
\* baseline exactly when the history holds no entry of its cache size.
C7_Speedup ==
    last.op = "compare" =>
        /\ \A c \in DOMAIN last.ret :
            LET e == last.ret[c] IN
            /\ (e.nightly_mean # None /\ e.nightly_mean # Some(0)) =>
                   /\ e.speedup_percent # None
                   /\ IsRoundedSpeedup(e.speedup_percent[1],
                                       e.nightly_mean[1], e.pr_mean)
                   /\ e.speedup_percent[1] > 0 => e.pr_mean < e.nightly_mean[1]
            /\ (e.nightly_mean = None \/ e.nightly_mean = Some(0)) =>
                   e.speedup_percent = None
            /\ e.nightly_mean = None <=>
                   ~\E r \in Range(results) :
                        r.config.bitcoind.dbcache = ConfigCache(c)
        /\ results = << >> => last.ret = EmptyDict

\* One report holds a rounded speedup of 63.3 %, a run without baseline and a
\* run whose baseline has mean zero.
C7_Witness ==
    /\ last.op = "compare"
    /\ \E c1, c2, c3 \in DOMAIN last.ret :
        /\ last.ret[c1].speedup_percent = Some(633)
        /\ last.ret[c2].nightly_mean = None
        /\ last.ret[c3].nightly_mean = Some(0)

(***************************************************************************)
(* Properties of the batch comparison                                      *)
(***************************************************************************)

Returned == cmp.op = "done" /\ cmp.ret.status = "returned"

\* C8 (as claimed): every comparison of a batch carries the speedup the
\* history comparison gives for its baseline mean and its mean, none at all
\* when the baseline mean is zero.
C8_SameRuleAsHistory ==
    Returned =>
        \A k \in 1..Len(cmp.ret.comparisons) :
            LET c == cmp.ret.comparisons[k]
            IN NightlySpeedup(c.baseline_mean, c.mean) = Some(c.speedup_percent)

\* The entries of the comparison asked for, and its baseline name.
GivenEntries ==
    IF \E k \in 1..Len(cmp.files) : cmp.files[k] = None THEN << >>
    ELSE AllEntries(cmp.files)

GivenBaseline ==
    IF cmp.baseline # None THEN cmp.baseline[1] ELSE GivenEntries[1].command

\* The position of the baseline entry: the first entry of the baseline name.
BaselineIndex ==
    CHOOSE k \in 1..Len(GivenEntries) :
        /\ GivenEntries[k].command = GivenBaseline
        /\ \A j \in 1..(k - 1) : GivenEntries[j].command # GivenBaseline

\* The comparisons are those of the entries `compared`, one each, in order,
\* all against the mean of the baseline entry.
ComparisonsAreOf(compared) ==
    /\ Len(cmp.ret.comparisons) = Len(compared)
    /\ \A k \in 1..Len(compared) :
        /\ cmp.ret.comparisons[k].name = compared[k].command
        /\ cmp.ret.comparisons[k].mean = compared[k].mean
        /\ cmp.ret.comparisons[k].stddev = compared[k].stddev
        /\ cmp.ret.comparisons[k].baseline_mean =
              GivenEntries[BaselineIndex].mean

BaselineKnown ==
    /\ GivenEntries # << >>
    /\ \E k \in 1..Len(GivenEntries) : GivenEntries[k].command = GivenBaseline

\* C9 (as claimed): the baseline is the named entry, or the first-listed one;
\* there is one comparison for each entry other than the baseline entry, in
\* input order, against the baseline's mean; an unknown baseline is an error.
C9_OnePerOtherEntry ==
    cmp.op = "done" =>
        IF BaselineKnown
        THEN /\ cmp.ret.status = "returned"
             /\ cmp.ret.baseline = GivenBaseline
             /\ ComparisonsAreOf(SubSeq(GivenEntries, 1, BaselineIndex - 1)
                    \o SubSeq(GivenEntries, BaselineIndex + 1,
                              Len(GivenEntries)))
        ELSE cmp.ret.status = "raised"

\* C9 (amended): the baseline is the named entry, or the first-listed one;
\* there is one comparison for each entry whose command differs from the
\* baseline's name, in input order, against the mean of the first entry of
\* that name; an unknown baseline is an error without comparisons.
C9_OnePerOtherName ==
    cmp.op = "done" =>
        IF BaselineKnown
        THEN /\ cmp.ret.status = "returned"
             /\ cmp.ret.baseline = GivenBaseline
             /\ ComparisonsAreOf(SelectSeq(GivenEntries,
                    LAMBDA e : e.command # GivenBaseline))
        ELSE /\ cmp.ret.status = "raised"
             /\ "comparisons" \notin DOMAIN cmp.ret

\* A comparison of files that hold two entries of the baseline's name, with
\* different means: the second one is not compared.
C9_Witness ==
    /\ Returned
    /\ cmp.baseline = None
    /\ Len(cmp.ret.comparisons) = Len(GivenEntries) - 2
    /\ \E k \in 1..Len(GivenEntries) :
        /\ GivenEntries[k].command = GivenBaseline
        /\ GivenEntries[k].mean # GivenEntries[BaselineIndex].mean

(***************************************************************************)
(* The history document (bench/nightly.py: to_dict, from_dict, save, _load) *)
(***************************************************************************)

MaxSaved == 2

\* The document is text; the model keeps it as the sequence of the tokens
\* json.dump writes, an object of the "results" list being one token.
Tok(s) == [t |-> s]

Obj(d) == [t |-> "object", value |-> d]

\* NightlyResult.to_dict
ToDict(r) ==
    [k \in {"date", "commit", "mean", "stddev", "runs", "config", "machine"}
        |-> CASE k = "date" -> r.date
              [] k = "commit" -> r.commit
              [] k = "mean" -> r.mean
              [] k = "stddev" -> r.stddev
              [] k = "runs" -> r.runs
              [] k = "config" -> r.config
              [] k = "machine" -> r.machine]

\* A string as a value of a document, to tell it from a dict:
\* isinstance(v, dict).
JsonString(s) == [str |-> s]

IsDict(v) == "str" \notin DOMAIN v

\* A from_dict that does not look for the flat dbcache of the legacy shape.
FromDictNoFlatField(data) ==
    NightlyResult(data["date"], data["commit"], data["mean"],
                  data["stddev"], data["runs"],
                  IF "config" \in DOMAIN data /\ IsDict(data["config"])
                  THEN data["config"]
                  ELSE [bitcoind |-> [dbcache |-> 0],
                        instrumentation |-> "uninstrumented"],
                  Get(data, "machine", "none"))

\* NightlyResult.from_dict.
\* A machine is kept by its name, and "none" names the machine of no specs
\* (MachineSpecs gives it the empty dict, the default of from_dict).
FromDict(data) ==
    IF "config" \in DOMAIN data /\ IsDict(data["config"])
    THEN NightlyResult(data["date"], data["commit"], data["mean"],
                       data["stddev"], data["runs"], data["config"],
                       Get(data, "machine", "none"))
    ELSE NightlyResult(data["date"], data["commit"], data["mean"],
                       data["stddev"], data["runs"],
                       [bitcoind |-> [dbcache |-> Get(data, "dbcache", 0)],
                        instrumentation |-> "uninstrumented"],
                       "none")

\* A dump that writes the list from its end.
RECURSIVE DumpItemsReversed(_)
DumpItemsReversed(rs) ==
    IF rs = << >> THEN << >>
    ELSE IF Len(rs) = 1 THEN <<Obj(ToDict(rs[1]))>>
    ELSE DumpItemsReversed(Tail(rs)) \o <<Tok(","), Obj(ToDict(rs[1]))>>

RECURSIVE DumpItems(_)
DumpItems(rs) ==
    IF rs = << >> THEN << >>
    ELSE IF Len(rs) = 1 THEN <<Obj(ToDict(rs[1]))>>
    ELSE <<Obj(ToDict(rs[1])), Tok(",")>> \o DumpItems(Tail(rs))

\* json.dump({"results": [r.to_dict() for r in self.results]}, f, indent=2)
Dump(rs) ==
    <<Tok("{"), Tok("\"results\":"), Tok("[")>> \o DumpItems(rs)
        \o <<Tok("]"), Tok("}")>>

\* The objects of a list's items: objects with a comma between two; None
\* when the text is no such list.
RECURSIVE LoadItems(_)
LoadItems(text) ==
    IF text = << >> THEN None
    ELSE IF text[1].t # "object" THEN None
    ELSE IF Len(text) = 1 THEN Some(<<text[1].value>>)
    ELSE IF text[2] # Tok(",") THEN None
    ELSE LET rest == LoadItems(SubSeq(text, 3, Len(text)))
         IN IF rest = None THEN None
            ELSE Some(<<text[1].value>> \o rest[1])

\* json.load(f): the dict of the document, None for text that is not a
\* document (json.JSONDecodeError), as the empty text and every proper
\* prefix of a document are.
JsonLoad(text) ==
    IF Len(text) < 2 \/ text[1] # Tok("{") \/ text[Len(text)] # Tok("}")
    THEN None
    ELSE IF Len(text) = 2 THEN Some(EmptyDict)
    ELSE IF \/ Len(text) < 5
            \/ text[2] # Tok("\"results\":")
            \/ text[3] # Tok("[")
            \/ text[Len(text) - 1] # Tok("]")
         THEN None
    ELSE IF Len(text) = 5 THEN Some([results |-> << >>])
    ELSE LET items == LoadItems(SubSeq(text, 4, Len(text) - 2))
         IN IF items = None THEN None
            ELSE Some([results |-> items[1]])

\* The elements of the "results" list of a document that can be read.
Elements(text) == Get(JsonLoad(text)[1], "results", << >>)

\* The keys from_dict reads with data[...]: a dict that lacks one of them
\* makes it raise KeyError.
RequiredKeys == {"date", "commit", "mean", "stddev", "runs"}

FromDictRaises(data) == RequiredKeys \ DOMAIN data # {}

\* A load that takes a document it cannot read for an empty history.
LoadExistingLenient(f) ==
    IF \/ JsonLoad(f.text) = None
       \/ \E k \in 1..Len(Elements(f.text)) :
              FromDictRaises(Elements(f.text)[k])
    THEN [status |-> "returned", results |-> << >>]
    ELSE [status |-> "returned",
          results |-> [k \in 1..Len(Elements(f.text)) |->
                          FromDict(Elements(f.text)[k])]]

\* _load of a file that exists: json.load and from_dict of every element.
LoadExisting(f) ==
    LET data == JsonLoad(f.text)
    IN IF data = None
       THEN [status |-> "raised", error |-> "JSONDecodeError"]
       ELSE LET rs == Get(data[1], "results", << >>)
            IN IF \E k \in 1..Len(rs) : FromDictRaises(rs[k])
               THEN [status |-> "raised", error |-> "KeyError"]
               ELSE [status |-> "returned",
                     results |-> [k \in 1..Len(rs) |-> FromDict(rs[k])]]

\* A load that opens the file without asking whether it exists.
LoadWithoutExistsTest(f) ==
    IF ~f.exists THEN [status |-> "raised", error |-> "FileNotFoundError"]
    ELSE LoadExisting(f)

\* NightlyHistory._load on the file f: the results of the history made, or
\* the exception that leaves the constructor.
Load(f) ==
    IF ~f.exists THEN [status |-> "returned", results |-> << >>]
    ELSE LoadExisting(f)

\* The results the writer appends before it saves.
SaveInputs ==
    {r \in Inputs : r.commit = "abc1234" /\ r.mean = 100 /\ Dbcache(r) = 450}

\* The writer: append, as in NightlyPhase.append, when no save is under way.
SaveAppend(r) ==
    /\ wr = Idle
    /\ AppendOp(r, MaxSaved)

\* save, first step: open(self.history_file, "w") creates or truncates the
\* file; data is what json.dump is going to write.
SaveOpen ==
    /\ wr = Idle
    /\ wr' = [op |-> "save", data |-> Dump(results), before |-> file]
    /\ file' = [exists |-> TRUE, text |-> << >>]
    /\ last' = [op |-> "save"]
    /\ UNCHANGED <<results, cmp, rd, proc, cfg, ser>>

\* save, while json.dump writes: the buffer of f is flushed when it is full,
\* and the file then holds a longer prefix of the document.
SaveFlush ==
    /\ wr.op = "save"
    /\ \E n \in (Len(file.text) + 1)..(Len(wr.data) - 1) :
        file' = [exists |-> TRUE, text |-> SubSeq(wr.data, 1, n)]
    /\ UNCHANGED <<results, last, cmp, wr, rd, proc, cfg, ser>>

\* save, last step: leaving the with block closes f, which writes the rest.
SaveClose ==
    /\ wr.op = "save"
    /\ file' = [exists |-> TRUE, text |-> wr.data]
    /\ wr' = Idle
    /\ UNCHANGED <<results, last, cmp, rd, proc, cfg, ser>>

\* The documents before and after the save under way, for a reader to tell
\* what it read from.
DocumentBefore == IF wr.op = "save" THEN wr.before ELSE file

DocumentAfter ==
    IF wr.op = "save" THEN [exists |-> TRUE, text |-> wr.data] ELSE file

\* A reader, another process, makes NightlyHistory(history_file): _load
\* tests history_file.exists() ...
LoadExists ==
    /\ rd.op \in {"none", "loaded"}
    /\ rd' = IF file.exists THEN [op |-> "opened"]
             ELSE [op |-> "loaded", ret |-> Load(file),
                   before |-> DocumentBefore,
                   after |-> DocumentAfter]
    /\ UNCHANGED <<results, last, cmp, file, wr, proc, cfg, ser>>

\* ... and then opens the file and reads it whole (json.load calls f.read()).
LoadRead ==
    /\ rd.op = "opened"
    /\ rd' = [op |-> "loaded", ret |-> Load(file),
              before |-> DocumentBefore, after |-> DocumentAfter]
    /\ UNCHANGED <<results, last, cmp, file, wr, proc, cfg, ser>>

SaveNext ==
    \/ \E r \in SaveInputs : SaveAppend(r)
    \/ SaveOpen
    \/ SaveFlush
    \/ SaveClose
    \/ LoadExists
    \/ LoadRead

SpecSave == Init /\ [][SaveNext]_vars

\* C10 (as claimed): a reader that loads the document during a save gets the
\* history of the complete previous document or of the complete new one,
\* never that of an empty or partly written one.
C10_ReaderSeesWholeDocument ==
    rd.op = "loaded" => rd.ret \in {Load(rd.before), Load(rd.after)}

(***************************************************************************)
(* Invocations of nightly append on one history document                   *)
(* (bench/nightly.py: NightlyPhase.append, NightlyHistory)                 *)
(***************************************************************************)

\* The invocations that may run at the same time.
Procs == {"a", "b"}

\* The results the invocations append: one commit measured on two dates.
NightlyInputs == {r \in SaveInputs : r.date \in {DateOf("1"), DateOf("2")}}

\* The result of the document a history already holds.
StoredResult ==
    NightlyResult(DateOf("3"), "def5678", 300, 5, 3,
                  ConfigDict(450, 840000, 900000), "ryzen")

\* The same result as an element of the legacy shape: the cache size in a
\* flat field, the config a name and no machine.
LegacyElement ==
    [k \in {"date", "commit", "mean", "stddev", "runs", "dbcache", "config"}
        |-> CASE k = "date" -> StoredResult.date
              [] k = "config" -> JsonString("450")
              [] k = "commit" -> StoredResult.commit
              [] k = "mean" -> StoredResult.mean
              [] k = "stddev" -> StoredResult.stddev
              [] k = "runs" -> StoredResult.runs
              [] k = "dbcache" -> 450]

\* A legacy element without the flat field and without a config.
LegacyElementNoCache ==
    [k \in RequiredKeys |->
        IF k = "date" THEN DateOf("1") ELSE LegacyElement[k]]

\* A document of the given elements.
RECURSIVE ElementTokens(_)
ElementTokens(elements) ==
    IF elements = << >> THEN << >>
    ELSE IF Len(elements) = 1 THEN <<Obj(elements[1])>>
    ELSE <<Obj(elements[1]), Tok(",")>> \o ElementTokens(Tail(elements))

DocumentOf(elements) ==
    [exists |-> TRUE,
     text |-> <<Tok("{"), Tok("\"results\":"), Tok("[")>>
                  \o ElementTokens(elements) \o <<Tok("]"), Tok("}")>>]

CurrentDocument == DocumentOf(<<ToDict(StoredResult)>>)

\* A document of the current shape whose element has the optional run_date.
RunDateDocument ==
    DocumentOf(<<DictSet(ToDict(StoredResult), "run_date", DateOf("2"))>>)

LegacyDocument == DocumentOf(<<LegacyElementNoCache, LegacyElement>>)

\* What a save that was cut short leaves: the first part of a document.
TruncatedDocument ==
    [exists |-> TRUE, text |-> SubSeq(CurrentDocument.text, 1, 4)]

\* A document whose element has lost its commit.
NoCommitDocument ==
    DocumentOf(<<[k \in DOMAIN LegacyElement \ {"commit"}
                     |-> LegacyElement[k]]>>)

\* The JSON object without a "results" list.
EmptyObjectDocument == [exists |-> TRUE, text |-> <<Tok("{"), Tok("}")>>]

WellFormedDocuments ==
    {Missing, CurrentDocument, RunDateDocument, LegacyDocument,
     EmptyObjectDocument}

MalformedDocuments == {TruncatedDocument, NoCommitDocument}

\* A position of the file nothing was written to (a NUL byte).
Hole == Tok("hole")

\* write() of chunk at the offset off of a file that holds text: each file
\* object opened has its own offset, and what lies beyond the chunk stays.
WriteAt(text, off, chunk) ==
    LET end == off + Len(chunk)
        n == IF Len(text) > end THEN Len(text) ELSE end
    IN [i \in 1..n |->
            IF i > off /\ i <= end THEN chunk[i - off]
            ELSE IF i <= Len(text) THEN text[i]
            ELSE Hole]

\* An invocation before it has done anything.
Started ==
    [pc |-> "start", results |-> << >>, read |-> Idle, early |-> FALSE,
     appended |-> << >>, data |-> << >>, off |-> 0, after |-> {},
     error |-> "none", at |-> "none"]

SaveBegun == \E q \in Procs : proc[q].pc \in {"saving", "done"}

\* history = NightlyHistory(self.history_file): _load reads the document, or
\* raises and ends the invocation.  early tells that no save had begun.
InvLoad(p) ==
    /\ proc[p].pc = "start"
    /\ LET ret == Load(file)
       IN proc' = [proc EXCEPT ![p] =
            IF ret.status = "raised"
            THEN [@ EXCEPT !.pc = "raised", !.read = file,
                           !.error = ret.error, !.at = "_load"]
            ELSE [@ EXCEPT !.pc = "loaded", !.read = file,
                           !.results = ret.results, !.early = ~SaveBegun]]
    /\ UNCHANGED <<results, last, cmp, file, wr, rd, cfg, ser>>

\* history.append_from_results_json(...): the result r is made of the
\* results file and appended.
InvAppend(p, r) ==
    /\ proc[p].pc = "loaded"
    /\ proc' = [proc EXCEPT ![p] =
            [@ EXCEPT !.pc = "appended",
                      !.results = AppendResult(@, r),
                      !.appended = <<r>>]]
    /\ UNCHANGED <<results, last, cmp, file, wr, rd, cfg, ser>>

\* append_from_results_json raises: the results file is missing
\* (FileNotFoundError) or holds no results (ValueError).
InvAppendRaises(p, error) ==
    /\ proc[p].pc = "loaded"
    /\ proc' = [proc EXCEPT ![p] =
            [@ EXCEPT !.pc = "raised", !.error = error,
                      !.at = "append_from_results_json"]]
    /\ UNCHANGED <<results, last, cmp, file, wr, rd, cfg, ser>>

\* history.save(), first step: open(self.history_file, "w") creates or
\* truncates the file.  A history may also be saved as it was loaded.
\* after tells the invocations whose save was over by then.
InvSaveOpen(p) ==
    /\ proc[p].pc \in {"loaded", "appended"}
    /\ proc' = [proc EXCEPT ![p] =
            [@ EXCEPT !.pc = "saving", !.data = Dump(proc[p].results),
                      !.off = 0,
                      !.after = {q \in Procs : proc[q].pc = "done"}]]
    /\ file' = [exists |-> TRUE, text |-> << >>]
    /\ UNCHANGED <<results, last, cmp, wr, rd, cfg, ser>>

\* save, while json.dump writes: a full buffer is written at the offset.
InvSaveFlush(p) ==
    /\ proc[p].pc = "saving"
    /\ \E n \in (proc[p].off + 1)..(Len(proc[p].data) - 1) :
        /\ file' = [exists |-> TRUE,
                    text |-> WriteAt(file.text, proc[p].off,
                                SubSeq(proc[p].data, proc[p].off + 1, n))]
        /\ proc' = [proc EXCEPT ![p] = [@ EXCEPT !.off = n]]
    /\ UNCHANGED <<results, last, cmp, wr, rd, cfg, ser>>

\* save, last step: closing f writes the rest of the document.
InvSaveClose(p) ==
    /\ proc[p].pc = "saving"
    /\ file' = [exists |-> TRUE,
                text |-> WriteAt(file.text, proc[p].off,
                            SubSeq(proc[p].data, proc[p].off + 1,
                                   Len(proc[p].data)))]
    /\ proc' = [proc EXCEPT ![p] =
            [@ EXCEPT !.pc = "done", !.off = Len(proc[p].data)]]
    /\ UNCHANGED <<results, last, cmp, wr, rd, cfg, ser>>

NightlyInit ==
    /\ file \in WellFormedDocuments \cup MalformedDocuments
    /\ proc = [p \in Procs |-> Started]
    /\ results = << >>
    /\ last = Idle
    /\ cmp = Idle
    /\ wr = Idle
    /\ rd = Idle
    /\ cfg = Idle
    /\ ser = Idle

NightlyNext ==
    \E p \in Procs :
        \/ InvLoad(p)
        \/ \E r \in NightlyInputs : InvAppend(p, r)
        \/ \E e \in {"FileNotFoundError", "ValueError"} : InvAppendRaises(p, e)
        \/ InvSaveOpen(p)
        \/ InvSaveFlush(p)
        \/ InvSaveClose(p)

SpecNightly == NightlyInit /\ [][NightlyNext]_vars

(***************************************************************************)
(* Properties of the invocations                                           *)
(***************************************************************************)

\* The results of the document on disk, when it can be loaded.
OnDisk == Load(file)

Holds(ret, r) ==
    /\ ret.status = "returned"
    /\ \E k \in 1..Len(ret.results) : ret.results[k] = r

\* p and q both loaded before any save began, and each appended a result,
\* of different triples, and saved.
Raced(p, q) ==
    /\ p # q
    /\ proc[p].pc = "done" /\ proc[q].pc = "done"
    /\ proc[p].early /\ proc[q].early
    /\ Len(proc[p].appended) = 1 /\ Len(proc[q].appended) = 1
    /\ ~SameTriple(proc[p].appended[1], proc[q].appended[1])

\* C11: when two invocations load before either saves and append results of
\* different triples, the document never holds both results; when q saves
\* after p has saved, the document is the one q wrote, with q's result and
\* without p's (last save wins).
C11_LostUpdate ==
    \A p, q \in Procs :
        Raced(p, q) =>
            /\ ~(Holds(OnDisk, proc[p].appended[1])
                    /\ Holds(OnDisk, proc[q].appended[1]))
            /\ p \in proc[q].after =>
                /\ file.text = proc[q].data
                /\ Holds(OnDisk, proc[q].appended[1])
                /\ ~Holds(OnDisk, proc[p].appended[1])

\* a saved and then b saved, over a document that held a result: b's result
\* and the stored one are on disk, a's is not.
C11_Witness ==
    /\ Raced("a", "b")
    /\ "a" \in proc["b"].after
    /\ proc["a"].read = CurrentDocument
    /\ Len(OnDisk.results) = 2
    /\ ~Holds(OnDisk, proc["a"].appended[1])

\* An element of the current shape has its config object.
HasCurrentShape(e) == "config" \in DOMAIN e /\ IsDict(e["config"])

\* A document of the current shape: every element has that shape.
IsCurrentShape(f) ==
    /\ f.exists
    /\ JsonLoad(f.text) # None
    /\ \A k \in 1..Len(Elements(f.text)) : HasCurrentShape(Elements(f.text)[k])

\* p loaded a document and saved it as it was loaded.
Resaved(p) == proc[p].pc = "done" /\ proc[p].appended = << >>

\* C12 (as claimed): a document of the current shape that is loaded and
\* saved has the same elements afterwards, each with its date, commit,
\* mean, stddev, runs, config, machine and, when it had one, its run_date.
C12_RoundTrip ==
    \A p \in Procs :
        (Resaved(p) /\ IsCurrentShape(proc[p].read)) =>
            Elements(proc[p].data) = Elements(proc[p].read.text)

\* q loaded the document that p had written.
ReadWrittenBy(q, p) ==
    /\ p # q
    /\ proc[p].pc = "done"
    /\ proc[q].read = [exists |-> TRUE, text |-> proc[p].data]

\* C13: a load and save of the document that a load and save has written,
\* whatever the shape of the document that one had read, writes the very
\* text it read.
C13_ResaveIdempotent ==
    \A p, q \in Procs :
        (Resaved(p) /\ Resaved(q) /\ ReadWrittenBy(q, p)) =>
            proc[q].data = proc[q].read.text

\* a normalized the legacy document, and b loaded and saved what a wrote.
C13_Witness ==
    /\ Resaved("a") /\ Resaved("b")
    /\ proc["a"].read = LegacyDocument
    /\ ReadWrittenBy("b", "a")
    /\ file.text = proc["b"].data
    /\ proc["a"].data # LegacyDocument.text

\* p holds the history as it loaded it from a document it could read.
HoldsLoaded(p) ==
    /\ proc[p].pc \in {"loaded", "saving", "done"}
    /\ proc[p].appended = << >>
    /\ proc[p].read.exists

SameMeasurement(r, e) ==
    /\ r.date = e.date
    /\ r.commit = e.commit
    /\ r.mean = e.mean
    /\ r.stddev = e.stddev
    /\ r.runs = e.runs

\* C14: an element of the legacy shape is loaded as a result with the cache
\* size of its flat field and with no machine attributes; every element of a
\* saved document has the current shape; and loading the saved document
\* gives the date, commit, mean, stddev, runs and cache size again.
C14_LegacyUpgrade ==
    \A p \in Procs :
        /\ proc[p].pc = "done" =>
               IsCurrentShape([exists |-> TRUE, text |-> proc[p].data])
        /\ HoldsLoaded(p) =>
            \A k \in 1..Len(proc[p].results) :
                LET e == Elements(proc[p].read.text)[k]
                    r == proc[p].results[k]
                IN ~HasCurrentShape(e) =>
                    /\ "dbcache" \in DOMAIN e => Dbcache(r) = e["dbcache"]
                    /\ MachineSpecs(r.machine) = EmptyDict
                    /\ SameMeasurement(r, e)
                    /\ \A q \in Procs :
                        (HoldsLoaded(q) /\ ReadWrittenBy(q, p)) =>
                            /\ SameMeasurement(proc[q].results[k], e)
                            /\ Dbcache(proc[q].results[k]) = Dbcache(r)

\* b holds what it loaded from the document a wrote after loading the legacy
\* document, whose second element has the flat field.
C14_Witness ==
    /\ HoldsLoaded("a") /\ HoldsLoaded("b")
    /\ proc["a"].read = LegacyDocument
    /\ ReadWrittenBy("b", "a")
    /\ Dbcache(proc["b"].results[2]) = 450
    /\ HasCurrentShape(Elements(proc["b"].read.text)[2])

\* C15: an invocation that finds no document loads an empty history without
\* an error; when it has appended a result and saved, what it wrote is the
\* document of that one result, and it is the document on disk unless
\* another invocation has written too.
C15_MissingDocument ==
    \A p \in Procs :
        proc[p].read = Missing =>
            /\ proc[p].at # "_load"
            /\ proc[p].pc = "loaded" => proc[p].results = << >>
            /\ (proc[p].pc = "done" /\ Len(proc[p].appended) = 1) =>
                /\ Elements(proc[p].data) = <<ToDict(proc[p].appended[1])>>
                /\ (\A q \in Procs \ {p} : proc[q].pc = "start") =>
                    /\ file.exists
                    /\ OnDisk = [status |-> "returned",
                                 results |-> proc[p].appended]

\* a found no document, appended a result and saved; b has not begun.
C15_Witness ==
    /\ proc["a"].read = Missing
    /\ proc["a"].pc = "done"
    /\ Len(proc["a"].appended) = 1
    /\ proc["b"].pc = "start"
    /\ file.exists

\* A document that is no JSON text, or one with an element that lacks a
\* field every element has.
IsMalformed(f) ==
    /\ f.exists
    /\ \/ JsonLoad(f.text) = None
       \/ \E k \in 1..Len(Elements(f.text)) :
              RequiredKeys \ DOMAIN Elements(f.text)[k] # {}

MaxParams == 2

\* The values of a matrix: TOML integers, booleans and strings.
IntValue(n) == [type |-> "int", int |-> n]

BoolValue(b) == [type |-> "bool", bool |-> b]

StrValue(t) == [type |-> "str", str |-> t]

\* str(value) of a bool
BoolStr(b) == IF b THEN <<"T", "r", "u", "e">> ELSE <<"F", "a", "l", "s", "e">>

\* BenchmarkConfig._value_to_name
ValueToName(value) ==
    IF value.type = "bool" THEN Lower(BoolStr(value.bool))
    ELSE IF value.type = "int" THEN IntStr(value.int)
    ELSE value.str

\* sep.join(parts)
RECURSIVE JoinWith(_, _)
JoinWith(parts, sep) ==
    IF parts = << >> THEN << >>
    ELSE IF Len(parts) = 1 THEN parts[1]
    ELSE parts[1] \o sep \o JoinWith(Tail(parts), sep)

\* The value lists a parameter of the matrix may be given in the TOML file.
ParamLists(param) ==
    CASE param = "dbcache" ->
            { << >>,
              <<IntValue(450), IntValue(32000)>>,
              <<IntValue(450), StrValue(<<"4", "5", "0">>)>> }
      [] param = "instrumented" ->
            { << >>,
              <<BoolValue(FALSE), BoolValue(TRUE)>>,
              <<BoolValue(TRUE)>> }
      [] param = "chain" ->
            { <<StrValue(<<"a", "-", "b">>), StrValue(<<"a">>)>> }
      [] param = "connect" ->
            { <<StrValue(<<"c">>), StrValue(<<"b", "-", "c">>)>> }
      [] param = "name" -> { <<StrValue(<<"x">>)>> }

ParamNames == {"dbcache", "instrumented", "chain", "connect", "name"}

\* The matrices: a dict in the order of its keys, as the list of its
\* (key, value list) pairs; no key twice.
RECURSIVE MatricesOf(_)
MatricesOf(n) ==
    IF n = 0 THEN {<< >>}
    ELSE LET shorter == MatricesOf(n - 1)
         IN shorter \cup
            {Append(m, <<param, values>>) :
                m \in {x \in shorter : Len(x) = n - 1},
                param \in ParamNames,
                values \in UNION {ParamLists(q) : q \in ParamNames}}

Matrices ==
    {m \in MatricesOf(MaxParams) :
        /\ \A i \in 1..Len(m) : m[i][2] \in ParamLists(m[i][1])
        /\ \A i, j \in 1..Len(m) : i # j => m[i][1] # m[j][1]}

\* BenchmarkConfig, with the fields the methods modelled read.
BenchmarkConfig(start_height, runs, matrix) ==
    [start_height |-> start_height, runs |-> runs, matrix |-> matrix]

Configs ==
    {BenchmarkConfig(h, r, m) :
        h \in {0 - 1, 840000}, r \in {0, 3}, m \in Matrices}

\* Pairs the lists up element by element, as zip does.
RECURSIVE ProductZipped(_)
ProductZipped(param_values) ==
    IF param_values = << >> THEN << << >> >>
    ELSE LET rest == ProductZipped(Tail(param_values))
             first == Head(param_values)
             n == IF Len(first) < Len(rest) THEN Len(first) ELSE Len(rest)
         IN [k \in 1..n |-> <<first[k]>> \o rest[k]]

\* itertools.product(*param_values): the combinations in its order, the
\* last list running fastest.
RECURSIVE Product(_)
Product(param_values) ==
    IF param_values = << >> THEN << << >> >>
    ELSE LET rest == Product(Tail(param_values))
             first == Head(param_values)
             n == Len(rest)
         IN [k \in 1..(Len(first) * n) |->
                <<first[((k - 1) \div n) + 1]>> \o rest[((k - 1) % n) + 1]]

\* The entry of one combination: its name, then each parameter's value.
RECURSIVE WithParams(_, _, _)
WithParams(entry, matrix, combination) ==
    IF matrix = << >> THEN entry
    ELSE WithParams(DictSet(entry, matrix[1][1], combination[1]),
                    Tail(matrix), Tail(combination))

\* "-".join(name_parts), the name synthesized for a combination
SynthesizedName(combination) ==
    LET name_parts ==
            [k \in 1..Len(combination) |-> ValueToName(combination[k])]
    IN JoinWith(name_parts, <<"-">>)

MatrixEntry(matrix, combination) ==
    WithParams([k \in {"name"} |-> StrValue(SynthesizedName(combination))],
               matrix, combination)

\* The combinations expand_matrix goes through, in its order.
Combinations(matrix) ==
    Product([k \in 1..Len(matrix) |-> matrix[k][2]])

\* BenchmarkConfig.expand_matrix
ExpandMatrix(config) ==
    IF config.matrix = << >>
    THEN <<[k \in {"name"} |->
                StrValue(<<"d", "e", "f", "a", "u", "l", "t">>)]>>
    ELSE LET combinations == Combinations(config.matrix)
         IN [k \in 1..Len(combinations) |->
                MatrixEntry(config.matrix, combinations[k])]

\* entry["name"] == name, for the str name
NameIs(entry, name) == entry["name"] = StrValue(name)

\* BenchmarkConfig.get_matrix_entry
GetMatrixEntry(config, name) ==
    LET entries == ExpandMatrix(config)
        found == {k \in 1..Len(entries) : NameIs(entries[k], name)}
    IN IF found = {} THEN None
       ELSE Some(entries[CHOOSE k \in found : \A j \in found : k <= j])

\* BenchmarkConfig.get_matrix_names
GetMatrixNames(config) ==
    LET entries == ExpandMatrix(config)
    IN [k \in 1..Len(entries) |-> entries[k]["name"]]

\* The messages of validate.
StartHeightMessage == [message |-> "start_height must be non-negative"]

RunsMessage == [message |-> "runs must be positive"]

MatrixMessage(param_name) ==
    [message |-> "matrix.{param_name} must have at least one value",
     param_name |-> param_name]

RECURSIVE MatrixErrors(_)
MatrixErrors(matrix) ==
    IF matrix = << >> THEN << >>
    ELSE (IF matrix[1][2] = << >> THEN <<MatrixMessage(matrix[1][1])>>
          ELSE << >>) \o MatrixErrors(Tail(matrix))

\* Stops at the first rule that is violated.
ValidateFailFast(config) ==
    IF config.start_height < 0 THEN <<StartHeightMessage>>
    ELSE IF config.runs < 1 THEN <<RunsMessage>>
    ELSE SubSeq(MatrixErrors(config.matrix), 1, 1)

\* BenchmarkConfig.validate
Validate(config) ==
    (IF config.start_height < 0 THEN <<StartHeightMessage>> ELSE << >>)
        \o (IF config.runs < 1 THEN <<RunsMessage>> ELSE << >>)
        \o MatrixErrors(config.matrix)

\* The names asked for with --matrix-entry.
EntryNames ==
    { <<"d", "e", "f", "a", "u", "l", "t">>,
      <<"4", "5", "0">>,
      <<"4", "5", "0", "-", "t", "r", "u", "e">>,
      <<"a", "-", "b", "-", "c">>,
      <<"x">>,
      <<"x", "-", "4", "5", "0">>,
      <<"n", "o", "n", "e">> }

\* cmd_run's test of what get_matrix_entry returned: not matrix_entry holds
\* of None and of an empty dict.
NotFound(matrix_entry) ==
    \/ matrix_entry = None
    \/ DOMAIN matrix_entry[1] = {}

\* The configuration file is loaded.
ConfigInit ==
    /\ \E c \in Configs : cfg = [op |-> "from_toml", config |-> c]
    /\ results = << >>
    /\ last = Idle
    /\ cmp = Idle
    /\ file = Missing
    /\ wr = Idle
    /\ rd = Idle
    /\ proc = Idle
    /\ ser = Idle

DoValidate ==
    /\ cfg' = [op |-> "validate", config |-> cfg.config,
               ret |-> Validate(cfg.config)]
    /\ UNCHANGED <<results, last, cmp, file, wr, rd, proc, ser>>

DoExpandMatrix ==
    /\ cfg' = [op |-> "expand_matrix", config |-> cfg.config,
               ret |-> ExpandMatrix(cfg.config)]
    /\ UNCHANGED <<results, last, cmp, file, wr, rd, proc, ser>>

DoGetMatrixNames ==
    /\ cfg' = [op |-> "get_matrix_names", config |-> cfg.config,
               ret |-> GetMatrixNames(cfg.config)]
    /\ UNCHANGED <<results, last, cmp, file, wr, rd, proc, ser>>

\* get_matrix_entry(name) and the caller's test of what it returned.
DoGetMatrixEntry(name) ==
    /\ cfg' = [op |-> "get_matrix_entry", config |-> cfg.config,
               name |-> name, ret |-> GetMatrixEntry(cfg.config, name),
               not_found |-> NotFound(GetMatrixEntry(cfg.config, name))]
    /\ UNCHANGED <<results, last, cmp, file, wr, rd, proc, ser>>

ConfigNext ==
    \/ DoValidate
    \/ DoExpandMatrix
    \/ DoGetMatrixNames
    \/ \E name \in EntryNames : DoGetMatrixEntry(name)

SpecConfig == ConfigInit /\ [][ConfigNext]_vars

(***************************************************************************)
(* Properties of the configuration                                         *)
(***************************************************************************)

\* c1 * ... * cn of the matrix's value lists
RECURSIVE Cardinalities(_)
Cardinalities(matrix) ==
    IF matrix = << >> THEN 1
    ELSE Len(matrix[1][2]) * Cardinalities(Tail(matrix))

Expanded == cfg.op = "expand_matrix"

\* C17: expand_matrix returns c1 * ... * cn entries for value lists of sizes
\* c1..cn (none when a list is empty), each entry mapping every parameter
\* name to a value of that parameter's list; for a matrix without
\* parameters it returns the one entry {name: "default"}.
C17_ExpansionSize ==
    Expanded =>
        LET matrix == cfg.config.matrix
        IN IF matrix = << >>
           THEN cfg.ret
                    = <<[k \in {"name"} |->
                            StrValue(<<"d", "e", "f", "a", "u", "l", "t">>)]>>
           ELSE /\ Len(cfg.ret) = Cardinalities(matrix)
                /\ \A i \in 1..Len(cfg.ret) : \A k \in 1..Len(matrix) :
                      /\ matrix[k][1] \in DOMAIN cfg.ret[i]
                      /\ cfg.ret[i][matrix[k][1]] \in Range(matrix[k][2])

\* A matrix of two parameters with two values each is expanded to four.
C17_Witness ==
    /\ Expanded
    /\ Len(cfg.config.matrix) = 2
    /\ \A k \in 1..2 : Len(cfg.config.matrix[k][2]) = 2
    /\ Len(cfg.ret) = 4

\* C18: two entries of one expansion that come from different value tuples
\* have different synthesized names.
C18_NamesUnique ==
    Expanded =>
        LET combinations == Combinations(cfg.config.matrix)
        IN \A i, j \in 1..Len(combinations) :
              combinations[i] # combinations[j]
                  => SynthesizedName(combinations[i])
                        # SynthesizedName(combinations[j])

\* The same, for matrices of strings without "-" in them or of integers
\* only or of booleans only: there the names are unique.
PlainValues(matrix) ==
    \A k \in 1..Len(matrix) : \A v \in Range(matrix[k][2]) :
        /\ v.type = matrix[k][2][1].type
        /\ v.type = "str" => "-" \notin Range(v.str)

NamesUniqueOfPlainValues ==
    (Expanded /\ PlainValues(cfg.config.matrix)) =>
        LET combinations == Combinations(cfg.config.matrix)
        IN \A i, j \in 1..Len(combinations) :
              combinations[i] # combinations[j]
                  => SynthesizedName(combinations[i])
                        # SynthesizedName(combinations[j])

Looked == cfg.op = "get_matrix_entry"

\* The names synthesized for the entries of the expansion, in its order.
SynthesizedNames(config) ==
    IF config.matrix = << >> THEN << <<"d", "e", "f", "a", "u", "l", "t">> >>
    ELSE LET combinations == Combinations(config.matrix)
         IN [k \in 1..Len(combinations) |->
                SynthesizedName(combinations[k])]

\* What get_matrix_entry(name) has to return.
EntryIsOfName(config, name, ret) ==
    /\ ret # None
            => \E k \in 1..Len(ExpandMatrix(config)) :
                  /\ ret[1] = ExpandMatrix(config)[k]
                  /\ SynthesizedNames(config)[k] = name
    /\ ret = None <=> StrValue(name) \notin Range(GetMatrixNames(config))
    /\ (config.matrix = << >> /\ name = <<"d", "e", "f", "a", "u", "l", "t">>)
            => /\ ret = Some([k \in {"name"} |-> StrValue(name)])
               /\ ~NotFound(ret)

\* C19: get_matrix_entry(name) returns an entry of the expansion whose
\* synthesized name is name, returns None exactly when name is not among
\* get_matrix_names(), and for a matrix without parameters returns for
\* "default" the entry without parameters, which cmd_run does not take for
\* not found.
C19_EntryOfName ==
    Looked => EntryIsOfName(cfg.config, cfg.name, cfg.ret)

NoNameParameter(matrix) == \A k \in 1..Len(matrix) : matrix[k][1] # "name"

\* The same, for the matrices that have no parameter called "name".
EntryOfNameWithoutNameParameter ==
    (Looked /\ NoNameParameter(cfg.config.matrix))
        => EntryIsOfName(cfg.config, cfg.name, cfg.ret)

Validated == cfg.op = "validate"

\* How often a message is among the errors returned.
Occurrences(errors, message) ==
    Cardinality({k \in 1..Len(errors) : errors[k] = message})

EmptyLists(matrix) == {k \in 1..Len(matrix) : matrix[k][2] = << >>}

\* The number of rules a configuration violates.
Violations(config) ==
    (IF config.start_height < 0 THEN 1 ELSE 0)
        + (IF config.runs < 1 THEN 1 ELSE 0)
        + Cardinality(EmptyLists(config.matrix))

\* C20: validate returns one message for each rule violated -- a negative
\* start height, a run count below 1, each matrix parameter whose list of
\* values is empty -- whatever else is wrong, and no other message, so the
\* empty list exactly when no rule is violated.
C20_AllErrorsCollected ==
    Validated =>
        LET config == cfg.config
            errors == cfg.ret
        IN /\ Occurrences(errors, StartHeightMessage)
                = (IF config.start_height < 0 THEN 1 ELSE 0)
           /\ Occurrences(errors, RunsMessage)
                = (IF config.runs < 1 THEN 1 ELSE 0)
           /\ \A k \in 1..Len(config.matrix) :
                 Occurrences(errors, MatrixMessage(config.matrix[k][1]))
                    = (IF k \in EmptyLists(config.matrix) THEN 1 ELSE 0)
           /\ Len(errors) = Violations(config)
           /\ errors = << >> <=> Violations(config) = 0

\* A configuration that violates four rules at once gets four messages.
C20_Witness ==
    /\ Validated
    /\ cfg.config.start_height < 0
    /\ cfg.config.runs < 1
    /\ Cardinality(EmptyLists(cfg.config.matrix)) = 2
    /\ Len(cfg.ret) = 4

(***************************************************************************)
(* The color of a series (series_color_index): MD5 of the key              *)
(***************************************************************************)

NUM_COLORS == 10

\* The printable ASCII characters, from code 32 on; the three that a string
\* of this module cannot hold are named.
Ascii ==
    << " ", "!", "quote", "#", "$", "%", "&", "'", "(", ")", "*", "+", ",",
       "-", ".", "/", "0", "1", "2", "3", "4", "5", "6", "7", "8", "9",
       ":", ";", "<", "=", ">", "?", "@", "A", "B", "C", "D", "E", "F",
       "G", "H", "I", "J", "K", "L", "M", "N", "O", "P", "Q", "R", "S",
       "T", "U", "V", "W", "X", "Y", "Z", "[", "backslash", "]", "^", "_",
       "backquote",
       "a", "b", "c", "d", "e", "f", "g", "h", "i", "j", "k", "l", "m",
       "n", "o", "p", "q", "r", "s", "t", "u", "v", "w", "x", "y", "z",
       "{", "|", "}", "~" >>

\* key.encode(): the bytes of a str of ASCII characters
Encode(key) ==
    [i \in 1..Len(key) |->
        31 + (CHOOSE c \in 1..Len(Ascii) : Ascii[c] = key[i])]

\* A 32-bit word is the pair of its halves, <<high 16 bits, low 16 bits>>.
Half == 65536

\* x & y, x | y and x ^ y of two hexadecimal digits: row x + 1, column y + 1
AndDigit ==
    << <<0, 0, 0, 0, 0, 0, 0, 0, 0, 0, 0, 0, 0, 0, 0, 0>>,
       <<0, 1, 0, 1, 0, 1, 0, 1, 0, 1, 0, 1, 0, 1, 0, 1>>,
       <<0, 0, 2, 2, 0, 0, 2, 2, 0, 0, 2, 2, 0, 0, 2, 2>>,
       <<0, 1, 2, 3, 0, 1, 2, 3, 0, 1, 2, 3, 0, 1, 2, 3>>,
       <<0, 0, 0, 0, 4, 4, 4, 4, 0, 0, 0, 0, 4, 4, 4, 4>>,
       <<0, 1, 0, 1, 4, 5, 4, 5, 0, 1, 0, 1, 4, 5, 4, 5>>,
       <<0, 0, 2, 2, 4, 4, 6, 6, 0, 0, 2, 2, 4, 4, 6, 6>>,
       <<0, 1, 2, 3, 4, 5, 6, 7, 0, 1, 2, 3, 4, 5, 6, 7>>,
       <<0, 0, 0, 0, 0, 0, 0, 0, 8, 8, 8, 8, 8, 8, 8, 8>>,
       <<0, 1, 0, 1, 0, 1, 0, 1, 8, 9, 8, 9, 8, 9, 8, 9>>,
       <<0, 0, 2, 2, 0, 0, 2, 2, 8, 8, 10, 10, 8, 8, 10, 10>>,
       <<0, 1, 2, 3, 0, 1, 2, 3, 8, 9, 10, 11, 8, 9, 10, 11>>,
       <<0, 0, 0, 0, 4, 4, 4, 4, 8, 8, 8, 8, 12, 12, 12, 12>>,
       <<0, 1, 0, 1, 4, 5, 4, 5, 8, 9, 8, 9, 12, 13, 12, 13>>,
       <<0, 0, 2, 2, 4, 4, 6, 6, 8, 8, 10, 10, 12, 12, 14, 14>>,
       <<0, 1, 2, 3, 4, 5, 6, 7, 8, 9, 10, 11, 12, 13, 14, 15>> >>

OrDigit ==
    << <<0, 1, 2, 3, 4, 5, 6, 7, 8, 9, 10, 11, 12, 13, 14, 15>>,
       <<1, 1, 3, 3, 5, 5, 7, 7, 9, 9, 11, 11, 13, 13, 15, 15>>,
       <<2, 3, 2, 3, 6, 7, 6, 7, 10, 11, 10, 11, 14, 15, 14, 15>>,
       <<3, 3, 3, 3, 7, 7, 7, 7, 11, 11, 11, 11, 15, 15, 15, 15>>,
       <<4, 5, 6, 7, 4, 5, 6, 7, 12, 13, 14, 15, 12, 13, 14, 15>>,
       <<5, 5, 7, 7, 5, 5, 7, 7, 13, 13, 15, 15, 13, 13, 15, 15>>,
       <<6, 7, 6, 7, 6, 7, 6, 7, 14, 15, 14, 15, 14, 15, 14, 15>>,
       <<7, 7, 7, 7, 7, 7, 7, 7, 15, 15, 15, 15, 15, 15, 15, 15>>,
       <<8, 9, 10, 11, 12, 13, 14, 15, 8, 9, 10, 11, 12, 13, 14, 15>>,
       <<9, 9, 11, 11, 13, 13, 15, 15, 9, 9, 11, 11, 13, 13, 15, 15>>,
       <<10, 11, 10, 11, 14, 15, 14, 15, 10, 11, 10, 11, 14, 15, 14, 15>>,
       <<11, 11, 11, 11, 15, 15, 15, 15, 11, 11, 11, 11, 15, 15, 15, 15>>,
       <<12, 13, 14, 15, 12, 13, 14, 15, 12, 13, 14, 15, 12, 13, 14, 15>>,
       <<13, 13, 15, 15, 13, 13, 15, 15, 13, 13, 15, 15, 13, 13, 15, 15>>,
       <<14, 15, 14, 15, 14, 15, 14, 15, 14, 15, 14, 15, 14, 15, 14, 15>>,
       <<15, 15, 15, 15, 15, 15, 15, 15, 15, 15, 15, 15, 15, 15, 15, 15>> >>

XorDigit ==
    << <<0, 1, 2, 3, 4, 5, 6, 7, 8, 9, 10, 11, 12, 13, 14, 15>>,
       <<1, 0, 3, 2, 5, 4, 7, 6, 9, 8, 11, 10, 13, 12, 15, 14>>,
       <<2, 3, 0, 1, 6, 7, 4, 5, 10, 11, 8, 9, 14, 15, 12, 13>>,
       <<3, 2, 1, 0, 7, 6, 5, 4, 11, 10, 9, 8, 15, 14, 13, 12>>,
       <<4, 5, 6, 7, 0, 1, 2, 3, 12, 13, 14, 15, 8, 9, 10, 11>>,
       <<5, 4, 7, 6, 1, 0, 3, 2, 13, 12, 15, 14, 9, 8, 11, 10>>,
       <<6, 7, 4, 5, 2, 3, 0, 1, 14, 15, 12, 13, 10, 11, 8, 9>>,
       <<7, 6, 5, 4, 3, 2, 1, 0, 15, 14, 13, 12, 11, 10, 9, 8>>,
       <<8, 9, 10, 11, 12, 13, 14, 15, 0, 1, 2, 3, 4, 5, 6, 7>>,
       <<9, 8, 11, 10, 13, 12, 15, 14, 1, 0, 3, 2, 5, 4, 7, 6>>,
       <<10, 11, 8, 9, 14, 15, 12, 13, 2, 3, 0, 1, 6, 7, 4, 5>>,
       <<11, 10, 9, 8, 15, 14, 13, 12, 3, 2, 1, 0, 7, 6, 5, 4>>,
       <<12, 13, 14, 15, 8, 9, 10, 11, 4, 5, 6, 7, 0, 1, 2, 3>>,
       <<13, 12, 15, 14, 9, 8, 11, 10, 5, 4, 7, 6, 1, 0, 3, 2>>,
       <<14, 15, 12, 13, 10, 11, 8, 9, 6, 7, 4, 5, 2, 3, 0, 1>>,
       <<15, 14, 13, 12, 11, 10, 9, 8, 7, 6, 5, 4, 3, 2, 1, 0>> >>

\* A bitwise operation on two numbers of n hexadecimal digits.
RECURSIVE Digitwise(_, _, _, _)
Digitwise(table, x, y, n) ==
    IF n = 0 THEN 0
    ELSE table[(x % 16) + 1][(y % 16) + 1]
            + 16 * Digitwise(table, x \div 16, y \div 16, n - 1)

And32(x, y) ==
    <<Digitwise(AndDigit, x[1], y[1], 4), Digitwise(AndDigit, x[2], y[2], 4)>>

Or32(x, y) ==
    <<Digitwise(OrDigit, x[1], y[1], 4), Digitwise(OrDigit, x[2], y[2], 4)>>

Xor32(x, y) ==
    <<Digitwise(XorDigit, x[1], y[1], 4), Digitwise(XorDigit, x[2], y[2], 4)>>

Not32(x) == <<Half - 1 - x[1], Half - 1 - x[2]>>

\* (x + y) mod 2^32
Add32(x, y) ==
    LET low == x[2] + y[2]
    IN <<(x[1] + y[1] + (low \div Half)) % Half, low % Half>>

RECURSIVE Pow2(_)
Pow2(n) == IF n = 0 THEN 1 ELSE 2 * Pow2(n - 1)

\* The word x rotated left by s bits, 0 < s < 32.
LeftRotate(x, s) ==
    LET y == IF s >= 16 THEN <<x[2], x[1]>> ELSE x
        t == s % 16
    IN <<((y[1] * Pow2(t)) % Half) + (y[2] \div Pow2(16 - t)),
         ((y[2] * Pow2(t)) % Half) + (y[1] \div Pow2(16 - t))>>

\* The sines of MD5: floor(2^32 * abs(sin(i))) for i = 1..64
MD5Sines ==
    << <<55146, 42104>>, <<59591, 46934>>, <<9248, 28891>>,
       <<49597, 52974>>, <<62844, 4015>>, <<18311, 50730>>,
       <<43056, 17939>>, <<64838, 38145>>, <<27008, 39128>>,
       <<35652, 63407>>, <<65535, 23473>>, <<35164, 55230>>,
       <<27536, 4386>>, <<64920, 29075>>, <<42617, 17294>>,
       <<18868, 2081>>, <<63006, 9570>>, <<49216, 45888>>, <<9822, 23121>>,
       <<59830, 51114>>, <<54831, 4189>>, <<580, 5203>>, <<55457, 59009>>,
       <<59347, 64456>>, <<8673, 52710>>, <<49975, 2006>>, <<62677, 3463>>,
       <<17754, 5357>>, <<43491, 59653>>, <<64751, 41976>>, <<26479, 729>>,
       <<36138, 19594>>, <<65530, 14658>>, <<34673, 63105>>,
       <<28061, 24866>>, <<64997, 14348>>, <<42174, 59972>>,
       <<19422, 53161>>, <<63163, 19296>>, <<48831, 48240>>,
       <<10395, 32454>>, <<60065, 10234>>, <<54511, 12421>>,
       <<1160, 7429>>, <<55764, 53305>>, <<59099, 39397>>, <<8098, 31992>>,
       <<50348, 22117>>, <<62505, 8772>>, <<17194, 65431>>,
       <<43924, 9127>>, <<64659, 41017>>, <<25947, 22979>>,
       <<36620, 52370>>, <<65519, 62589>>, <<34180, 24017>>,
       <<28584, 32335>>, <<65068, 59104>>, <<41729, 17172>>,
       <<19976, 4513>>, <<63315, 32386>>, <<48442, 62005>>,
       <<10967, 53947>>, <<60294, 54161>> >>

\* The shifts of MD5, per step
MD5Shifts ==
    << 7, 12, 17, 22, 7, 12, 17, 22, 7, 12, 17, 22, 7, 12, 17, 22, 5, 9,
       14, 20, 5, 9, 14, 20, 5, 9, 14, 20, 5, 9, 14, 20, 4, 11, 16, 23, 4,
       11, 16, 23, 4, 11, 16, 23, 4, 11, 16, 23, 6, 10, 15, 21, 6, 10, 15,
       21, 6, 10, 15, 21, 6, 10, 15, 21 >>

\* n as count bytes, the lowest first.
RECURSIVE LittleEndian(_, _)
LittleEndian(n, count) ==
    IF count = 0 THEN << >>
    ELSE <<n % 256>> \o LittleEndian(n \div 256, count - 1)

\* The message with its padding: a 1 bit, zeros up to 56 modulo 64 bytes,
\* and the length in bits as 8 bytes, the lowest first.
MD5Padded(bytes) ==
    LET zeros == (119 - (Len(bytes) % 64)) % 64
    IN bytes \o <<128>> \o [i \in 1..zeros |-> 0]
           \o LittleEndian(8 * Len(bytes), 8)

\* The 16 words of block k (from 0) of the padded message.
MD5Block(padded, k) ==
    [j \in 1..16 |->
        LET at == 64 * k + 4 * (j - 1)
        IN <<padded[at + 3] + 256 * padded[at + 4],
             padded[at + 1] + 256 * padded[at + 2]>>]

\* Steps i..63 of the processing of one block, from the state <<A, B, C, D>>
\* (the state is looked at in every step, so that it is computed step by
\* step and not all at the end).
RECURSIVE MD5Steps(_, _, _)
MD5Steps(state, M, i) ==
    IF i = 64 \/ Len(state) # 4 THEN state
    ELSE LET A == state[1]
             B == state[2]
             C == state[3]
             D == state[4]
             F == IF i < 16 THEN Or32(And32(B, C), And32(Not32(B), D))
                  ELSE IF i < 32 THEN Or32(And32(D, B), And32(Not32(D), C))
                  ELSE IF i < 48 THEN Xor32(Xor32(B, C), D)
                  ELSE Xor32(C, Or32(B, Not32(D)))
             g == IF i < 16 THEN i
                  ELSE IF i < 32 THEN (5 * i + 1) % 16
                  ELSE IF i < 48 THEN (3 * i + 5) % 16
                  ELSE (7 * i) % 16
             sum == Add32(Add32(F, A), Add32(MD5Sines[i + 1], M[g + 1]))
         IN MD5Steps(<<D, Add32(B, LeftRotate(sum, MD5Shifts[i + 1])), B, C>>,
                     M, i + 1)

\* The blocks k.. of the padded message processed from the state given.
RECURSIVE MD5Blocks(_, _, _)
MD5Blocks(state, padded, k) ==
    IF 64 * k >= Len(padded) THEN state
    ELSE LET next == MD5Steps(state, MD5Block(padded, k), 0)
         IN MD5Blocks([j \in 1..4 |-> Add32(state[j], next[j])],
                      padded, k + 1)

\* The bytes of a word, the lowest first.
WordBytes(x) == LittleEndian(x[2], 2) \o LittleEndian(x[1], 2)

\* The state MD5 starts from.
MD5Start ==
    <<<<26437, 8961>>, <<61389, 43913>>, <<39098, 56574>>, <<4146, 21622>>>>

\* hashlib.md5(bytes).digest()
MD5Digest(bytes) ==
    LET state == MD5Blocks(MD5Start, MD5Padded(bytes), 0)
    IN WordBytes(state[1]) \o WordBytes(state[2]) \o WordBytes(state[3])
          \o WordBytes(state[4])

\* int.from_bytes(bytes, "little") % modulus
RECURSIVE FromBytesLittleMod(_, _)
FromBytesLittleMod(bytes, modulus) ==
    IF bytes = << >> THEN 0
    ELSE (Head(bytes) + 256 * FromBytesLittleMod(Tail(bytes), modulus))
            % modulus

\* An index into a palette of sixteen colors.
SeriesColorIndexOfSixteen(key) ==
    FromBytesLittleMod(SubSeq(MD5Digest(Encode(key)), 1, 4), 16)

\* series_color_index
SeriesColorIndex(key) ==
    LET hash_bytes == MD5Digest(Encode(key))
    IN FromBytesLittleMod(SubSeq(hash_bytes, 1, 4), NUM_COLORS)

(***************************************************************************)
(* Series identity of results (series_key, series_color_index)             *)
(***************************************************************************)

MaxChanged == 2

\* A result as append_from_results_json builds it: its machine is the dict.
Captured(r) == [r EXCEPT !.machine = MachineSpecs(r.machine)]

\* series_key(result), for a result that carries its machine dict
SeriesKeyOfResult(r) == SeriesKeyOf(r.machine, r.config, Dbcache(r))

\* The machine attribute key of result r set to value.
WithMachine(r, key, value) ==
    [r EXCEPT !.machine = DictSet(r.machine, key, value)]

\* The results the series identity is first computed for: measurements of
\* machines that report their RAM differently, one of the legacy shape that
\* has no machine attributes, and one whose machine attributes were read
\* from a machine specs file that names its disk and kernel freely.
SeriesInputs ==
    { WithMachine(
          Captured(NightlyResult(DateOf("1"), "abc1234", 100, 5, 3,
                                 ConfigDict(450, 840000, 900000), "ryzen")),
          "total_ram_gb", ram) : ram \in {119, 313, 627} }
    \cup
    { Captured(NightlyResult(DateOf("1"), "abc1234", 100, 5, 3,
                             ConfigDict(450, 840000, 900000), "none")) }
    \cup
    { WithMachine(
          WithMachine(
              Captured(NightlyResult(DateOf("1"), "abc1234", 100, 5, 3,
                                     ConfigDict(450, 840000, 900000),
                                     "ryzen")),
              "disk_type", <<"a", "|", "b">>),
          "os_kernel", <<"c">>) }

\* Reported RAM, in tenths of a GB.
RamValues == {0, 39, 41, 119, 121, 313, 321, 470, 490, 640}

CpuModels ==
    {
      <<"a", "m", "d", " ", "r", "y", "z", "e", "n", " ", "7", " ", "7", "7",
        "0", "0", " ", "8", "-", "c", "o", "r", "e">>,
      <<"I", "n", "t", "e", "l", "(", "R", ")", " ", "C", "o", "r", "e", "(",
        "T", "M", ")", " ", "i", "7", "-", "1", "2", "7", "0", "0", "K">>,
      <<"I", "n", "t", "e", "l", "(", "R", ")", " ", "X", "e", "o", "n", "(",
        "R", ")", " ", "C", "P", "U", " ", "E", "5", "-", "2", "6", "8", "0",
        " ", "v", "4", " ", "@", " ", "2", ".", "4", "0", "G", "H", "z">>,
      <<"A", "M", "D", " ", "R", "y", "z", "e", "n", " ", "T", "h", "r", "e",
        "a", "d", "r", "i", "p", "p", "e", "r", " ", "P", "R", "O", " ", "5",
        "9", "9", "5", "W", "X", " ", "6", "4", "-", "C", "o", "r", "e", "s">> }

DiskTypes == { <<"H", "D", "D">>, <<"U", "n", "k", "n", "o", "w", "n">>,
    <<"a", "|", "b">>, <<"a">> }

Kernels == { <<"6", ".", "6", ".", "3", "0">>, <<"6", ".", "8", "-", "r", "c",
    "1">>, <<"b", "|", "c">>, <<"c">> }

\* The bitcoind parameter key of result r set to value.
WithBitcoind(r, key, value) ==
    [r EXCEPT !.config.bitcoind = DictSet(r.config.bitcoind, key, value)]

\* series_key is computed for the first result and for a second one.
SeriesKeys(a, b) ==
    [op |-> "series_key", a |-> a, b |-> b, changed |-> 0,
     key_a |-> SeriesKeyOfResult(a), key_b |-> SeriesKeyOfResult(b)]

\* The second result becomes b and its key is computed.
DoSeriesKeys(b) ==
    /\ ser.changed < MaxChanged
    /\ b # ser.b
    /\ ser' = [ser EXCEPT !.b = b, !.changed = @ + 1,
                          !.key_b = SeriesKeyOfResult(b)]
    /\ UNCHANGED <<results, last, cmp, file, wr, rd, proc, cfg>>

\* The second result differs in a machine attribute the key is made of.
DoChangeRam == \E v \in RamValues :
    DoSeriesKeys(WithMachine(ser.b, "total_ram_gb", v))

DoChangeCpuModel == \E v \in CpuModels :
    DoSeriesKeys(WithMachine(ser.b, "cpu_model", v))

DoChangeDiskType == \E v \in DiskTypes :
    DoSeriesKeys(WithMachine(ser.b, "disk_type", v))

DoChangeKernel == \E v \in Kernels :
    DoSeriesKeys(WithMachine(ser.b, "os_kernel", v))

\* The second result differs in a machine attribute the key is not made of.
DoChangeArchitecture ==
    DoSeriesKeys(WithMachine(ser.b, "architecture", "aarch64"))

DoChangeCores == DoSeriesKeys(WithMachine(ser.b, "cpu_cores", 8))

\* The second result differs in its configuration.
DoChangeDbcache == DoSeriesKeys(WithBitcoind(ser.b, "dbcache", 32000))

DoChangeStop == DoSeriesKeys(WithBitcoind(ser.b, "stopatheight", 850000))

DoChangeStart == DoSeriesKeys([ser.b EXCEPT !.config.start_height = 0])

DoChangeInstrumentation ==
    DoSeriesKeys([ser.b EXCEPT !.config.instrumentation = "instrumented"])

\* The second result is another measurement.
DoChangeMeasurement ==
    \/ DoSeriesKeys([ser.b EXCEPT !.date = DateOf("2")])
    \/ DoSeriesKeys([ser.b EXCEPT !.commit = "def5678"])
    \/ DoSeriesKeys([ser.b EXCEPT !.mean = 300])
    \/ DoSeriesKeys([ser.b EXCEPT !.stddev = 7])
    \/ DoSeriesKeys([ser.b EXCEPT !.runs = 1])

SeriesInit ==
    /\ \E r \in SeriesInputs : ser = SeriesKeys(r, r)
    /\ results = << >>
    /\ last = Idle
    /\ cmp = Idle
    /\ file = Missing
    /\ wr = Idle
    /\ rd = Idle
    /\ proc = Idle
    /\ cfg = Idle

SeriesNext ==
    \/ DoChangeRam
    \/ DoChangeCpuModel
    \/ DoChangeDiskType
    \/ DoChangeKernel
    \/ DoChangeArchitecture
    \/ DoChangeCores
    \/ DoChangeDbcache
    \/ DoChangeStop
    \/ DoChangeStart
    \/ DoChangeInstrumentation
    \/ DoChangeMeasurement

SpecSeries == SeriesInit /\ [][SeriesNext]_vars

(***************************************************************************)
(* Properties of the series identity                                       *)
(***************************************************************************)

Abs(n) == IF n < 0 THEN 0 - n ELSE n

\* The two results differ in the RAM their machines report and in nothing
\* else.
OnlyRamDiffers(a, b) ==
    /\ "total_ram_gb" \in DOMAIN a.machine
    /\ "total_ram_gb" \in DOMAIN b.machine
    /\ a.machine.total_ram_gb # b.machine.total_ram_gb
    /\ WithMachine(a, "total_ram_gb", 0) = WithMachine(b, "total_ram_gb", 0)

\* The width of the bucket of a RAM value, in tenths of a GB.
BucketWidth(ram) == IF ram <= 320 THEN 80 ELSE 320

\* C21 as stated: two results that differ only in reported RAM, by less than
\* the bucket width, have the same series key.
C21_CloseRamSameKey ==
    LET ram_a == ser.a.machine.total_ram_gb
        ram_b == ser.b.machine.total_ram_gb
    IN (/\ OnlyRamDiffers(ser.a, ser.b)
        /\ Abs(ram_a - ram_b) < BucketWidth(ram_a)
        /\ Abs(ram_a - ram_b) < BucketWidth(ram_b))
           => ser.key_a = ser.key_b

\* ram lies less than half its bucket width from m, a multiple of that width.
NearMultiple(ram, m) ==
    /\ m % BucketWidth(ram) = 0
    /\ 2 * Abs(ram - m) < BucketWidth(ram)

\* C21, amended: two results that differ only in reported RAM have the same
\* series key when both RAM values lie less than half a bucket width from
\* the same multiple of the bucket width.
C21_SameBucketSameKey ==
    LET ram_a == ser.a.machine.total_ram_gb
        ram_b == ser.b.machine.total_ram_gb
    IN (/\ OnlyRamDiffers(ser.a, ser.b)
        /\ \E m \in {k * 80 : k \in 0..8} :
              NearMultiple(ram_a, m) /\ NearMultiple(ram_b, m))
           => ser.key_a = ser.key_b

\* 31.3 GB and 32.1 GB, one in each range of bucket widths, are both 32 GB.
C21_Witness ==
    /\ OnlyRamDiffers(ser.a, ser.b)
    /\ ser.a.machine.total_ram_gb = 313
    /\ ser.b.machine.total_ram_gb = 321
    /\ ser.key_a = ser.key_b

\* The part of a dict that is under the given keys.
Restrict(d, keys) == [k \in (DOMAIN d) \cap keys |-> d[k]]

\* What series_key is to depend on: CPU model, RAM, disk type and kernel
\* version of the machine, cache size and start and stop heights.
KeyInputs(r) ==
    <<Restrict(r.machine,
               {"cpu_model", "total_ram_gb", "disk_type", "os_kernel"}),
      Restrict(r.config, {"start_height"}),
      Restrict(Get(r.config, "bitcoind", EmptyDict),
               {"dbcache", "stopatheight"})>>

\* C22: two results that agree on CPU model, RAM, disk type, kernel version,
\* cache size and start and stop heights have the same series key, whatever
\* their date, commit, mean, stddev, sample count, architecture, core count
\* and instrumentation setting.
C22_KeyOfItsInputsOnly ==
    KeyInputs(ser.a) = KeyInputs(ser.b) => ser.key_a = ser.key_b

\* Results of different dates and core counts with one key.
C22_Witness ==
    /\ KeyInputs(ser.a) = KeyInputs(ser.b)
    /\ ser.a.date # ser.b.date
    /\ Get(ser.a.machine, "cpu_cores", 0) = 16
    /\ Get(ser.b.machine, "cpu_cores", 0) = 8
    /\ ser.key_a = ser.key_b

\* The CPU fingerprint series_key computes for a result.
Fingerprint(r) == NormalizeCpuModel(Get(r.machine, "cpu_model", Unknown))

IsLower(c) == \E i \in 1..26 : Lowers[i] = c

\* C23: the normalized CPU fingerprint is at most 25 characters long and
\* consists of lower-case letters and digits only, so it has no upper-case
\* letter, no whitespace and no hyphen.
C23_FingerprintAlphanumeric ==
    LET cpu == Fingerprint(ser.b)
    IN /\ Len(cpu) <= 25
       /\ \A i \in 1..Len(cpu) : IsLower(cpu[i]) \/ IsDigit(cpu[i])

\* What holds of every fingerprint: at most 25 characters, none of them an
\* upper-case letter, a space or a hyphen.
FingerprintShortAndLower ==
    LET cpu == Fingerprint(ser.b)
    IN /\ Len(cpu) <= 25
       /\ \A i \in 1..Len(cpu) :
             /\ cpu[i] \notin {" ", "-"}
             /\ ~(\E k \in 1..26 : Uppers[k] = cpu[i])

\* The normalized components series_key joins.
Components(r) ==
    LET bitcoind == Get(r.config, "bitcoind", EmptyDict)
    IN <<NormalizeCpuModel(Get(r.machine, "cpu_model", Unknown)),
         BucketRam(Get(r.machine, "total_ram_gb", 0)),
         NormalizeDiskType(Get(r.machine, "disk_type", Unknown)),
         NormalizeKernel(Get(r.machine, "os_kernel", Unknown)),
         Get(bitcoind, "dbcache", Dbcache(r)),
         Get(r.config, "start_height", 0),
         Get(bitcoind, "stopatheight", 0)>>

\* C30: two results have equal series keys only if their normalized
\* components (CPU fingerprint, RAM bucket, disk class, kernel major.minor,
\* cache size, start height, stop height) are equal one by one.
C30_KeyInjective ==
    ser.key_a = ser.key_b => Components(ser.a) = Components(ser.b)

\* Two results whose disk classes and kernels differ have one key.
PipeCollision ==
    /\ ser.key_a = ser.key_b
    /\ Components(ser.a)[3] # Components(ser.b)[3]
    /\ Components(ser.a)[4] # Components(ser.b)[4]

\* No text component of the result has the separator in it.
NoPipe(r) ==
    \A k \in {1, 3, 4} : ~Contains(Components(r)[k], <<"|">>)

\* What holds: results whose text components are free of the separator have
\* equal keys only if their components are equal.
KeyInjectiveWithoutPipe ==
    (NoPipe(ser.a) /\ NoPipe(ser.b) /\ ser.key_a = ser.key_b)
        => Components(ser.a) = Components(ser.b)

(***************************************************************************)
(* Properties of append and the series of the entries                      *)
(***************************************************************************)

\* C29: an append removes an entry only if that entry is of the series of
\* the appended result.
C29_RemovedStep ==
    (last'.op = "append" /\ last'.removed # None)
        => SeriesKey(last'.removed[1]) = SeriesKey(last'.arg)

C29_RemovesOwnSeriesOnly == [][C29_RemovedStep]_vars

\* An append has removed the entry of another machine.
RemovedOtherMachine ==
    /\ last.op = "append"
    /\ last.removed # None
    /\ last.removed[1].machine # last.arg.machine
    /\ SeriesKey(last.removed[1]) # SeriesKey(last.arg)
    /\ last.removed[1] \notin Range(results)

(***************************************************************************)
(* The label of a series (series_label)                                    *)
(***************************************************************************)

\* \w of a regular expression, for the characters of the model
IsWordChar(c) ==
    \/ IsDigit(c)
    \/ c = "_"
    \/ \E k \in 1..26 : Uppers[k] = c \/ Lowers[k] = c

\* The position after the longest run of digits (\d+ takes all it can)
\* that starts at i; i itself when there is none.
RECURSIVE DigitsEnd(_, _)
DigitsEnd(s, i) ==
    IF i <= Len(s) /\ IsDigit(s[i]) THEN DigitsEnd(s, i + 1) ELSE i

\* The same for \w.
RECURSIVE WordEnd(_, _)
WordEnd(s, i) ==
    IF i <= Len(s) /\ IsWordChar(s[i]) THEN WordEnd(s, i + 1) ELSE i

\* s has character c at position i
CharAt(s, i, c) == i <= Len(s) /\ s[i] = c

\* The position after the match of pattern k of _extract_cpu_short_name that
\* starts at position i of s, 0 when the pattern does not match there.  The
\* patterns are matched with re.IGNORECASE.
MatchEnd(s, k, i) ==
    LET lower == Lower(s)
    IN CASE k = 1 ->
              \* Ryzen \d+ \d+
              LET d1 == DigitsEnd(s, i + 6)
                  d2 == DigitsEnd(s, d1 + 1)
              IN IF /\ StartsWithAt(lower, <<"r", "y", "z", "e", "n", " ">>, i)
                    /\ d1 > i + 6
                    /\ CharAt(s, d1, " ")
                    /\ d2 > d1 + 1
                 THEN d2 ELSE 0
         [] k = 2 ->
              \* EPYC \d+
              LET d == DigitsEnd(s, i + 5)
              IN IF StartsWithAt(lower, <<"e", "p", "y", "c", " ">>,
                  i) /\ d > i + 5
                 THEN d ELSE 0
         [] k = 3 ->
              \* M\d+ (?:Pro|Max|Ultra)?
              LET d == DigitsEnd(s, i + 1)
              IN IF CharAt(lower, i, "m") /\ d > i + 1 /\ CharAt(s, d, " ")
                 THEN IF StartsWithAt(lower, <<"p", "r", "o">>,
                     d + 1) THEN d + 4
                      ELSE IF StartsWithAt(lower, <<"m", "a", "x">>,
                          d + 1) THEN d + 4
                      ELSE IF StartsWithAt(lower, <<"u", "l", "t", "r", "a">>,
                          d + 1) THEN d + 6
                      ELSE d + 1
                 ELSE 0
         [] k = 4 ->
              \* i[3579]-\d+\w*
              IF /\ CharAt(lower, i, "i")
                 /\ i + 1 <= Len(s) /\ s[i + 1] \in {"3", "5", "7", "9"}
                 /\ CharAt(s, i + 2, "-")
                 /\ DigitsEnd(s, i + 3) > i + 3
              THEN WordEnd(s, i + 3) ELSE 0
         [] k = 5 ->
              \* Xeon \w+-\d+
              LET w == WordEnd(s, i + 5)
                  d == DigitsEnd(s, w + 1)
              IN IF /\ StartsWithAt(lower, <<"x", "e", "o", "n", " ">>, i)
                    /\ w > i + 5
                    /\ CharAt(s, w, "-")
                    /\ d > w + 1
                 THEN d ELSE 0

\* re.search(pattern k, s): the leftmost match, None when there is none
Search(s, k) ==
    IF \E i \in 1..Len(s) : MatchEnd(s, k, i) # 0
    THEN LET i == CHOOSE i \in 1..Len(s) :
                      /\ MatchEnd(s, k, i) # 0
                      /\ \A j \in 1..(i - 1) : MatchEnd(s, k, j) = 0
         IN Some(SubSeq(s, i, MatchEnd(s, k, i) - 1))
    ELSE None

\* The words of a CPU model that tell nothing about it.
LabelBoilerplate == {<<"p", "r", "o", "c", "e", "s", "s", "o", "r">>, <<"c",
    "o", "r", "e">>, <<"a", "m", "d">>, <<"i", "n", "t", "e", "l">>, <<"a",
    "p", "p", "l", "e">>}

\* _extract_cpu_short_name
ExtractCpuShortName(cpu_model) ==
    IF \E k \in 1..5 : Search(cpu_model, k) # None
    THEN LET k == CHOOSE k \in 1..5 :
                      /\ Search(cpu_model, k) # None
                      /\ \A j \in 1..(k - 1) : Search(cpu_model, j) = None
         IN Search(cpu_model, k)[1]
    ELSE LET words == SplitWhitespace(
                          Replace(Replace(cpu_model, <<"(", "R", ")">>, << >>),
                                  <<"(", "T", "M", ")">>, << >>))
             meaningful == SelectSeq(words,
                               LAMBDA w : Lower(w) \notin LabelBoilerplate)
         IN IF meaningful # << >>
            THEN JoinWith(Prefix(meaningful, 2), <<" ">>)
            ELSE Prefix(cpu_model, 20)

\* series_label, for the machine dict, the config dict and the dbcache
\* property (RAM in tenths of a GB; the architecture is one token of the
\* text)
SeriesLabelOf(machine, config, dbcacheProperty) ==
    LET bitcoind == Get(config, "bitcoind", EmptyDict)
        arch == Get(machine, "architecture", "unknown")
        cpu_model == Get(machine, "cpu_model", <<"U", "n", "k", "n", "o", "w",
            "n">>)
        cpu_short == ExtractCpuShortName(cpu_model)
        ram == Get(machine, "total_ram_gb", 0)
        ram_str == IF ram # 0 THEN IntStr(ram \div 10) \o <<"G", "B", " ",
            "R", "A", "M">>
                   ELSE <<"?", "G", "B", " ", "R", "A", "M">>
        start == Get(config, "start_height", 0)
        stop == Get(bitcoind, "stopatheight", 0)
        block_range == IF start # 0 /\ stop # 0
                       THEN IntStr(start) \o <<"-">> \o IntStr(stop)
                       ELSE <<"?", "-", "?">>
    IN <<arch>> \o <<",", " ">> \o cpu_short \o <<",",
        " ">> \o ram_str \o <<",", " ">>
        \o block_range \o <<",", " ", "d", "b", "c", "a", "c", "h", "e",
            " ">> \o IntStr(dbcacheProperty)

\* series_label(result)
SeriesLabel(r) == SeriesLabelOf(MachineSpecs(r.machine), r.config, Dbcache(r))

(***************************************************************************)
(* Invocations one after the other (NightlyPhase, ReportPhase, cmd_nightly) *)
(***************************************************************************)

\* The number of results the history document may come to hold.
MaxStored == 2

\* date.today().isoformat(), the day the invocations run
Today == DateOf("2")

\* A results file of the harness: its JSON data, when it exists.  A number
\* that may be null is Some(n) or None.
ResultsFile(data) == [exists |-> TRUE, data |-> data]

NoResultsFile == [exists |-> FALSE]

\* One command measured three times.
OneCommand ==
    ResultsFile([results |->
        <<[mean |-> 100, stddev |-> Some(5), times |-> <<99, 100, 101>>]>>])

\* Two commands, the first measured once (hyperfine gives no stddev then).
TwoCommands ==
    ResultsFile([results |->
        <<[mean |-> 300, stddev |-> None, times |-> <<300>>],
          [mean |-> 999, stddev |-> Some(9), times |-> <<998, 1000>>]>>])

\* One command and nothing measured of it.
BareCommand == ResultsFile([results |-> <<EmptyDict>>])

EmptyResults == ResultsFile([results |-> << >>])

NoResultsKey == ResultsFile(EmptyDict)

\* A file of machine specs or of a benchmark config that cannot be read.
Unreadable == [readable |-> FALSE]

MachineSpecsFile(name) == [readable |-> TRUE, machine |-> name]

BenchmarkConfigFile(start, stop) ==
    [readable |-> TRUE, start_height |-> start, stopatheight |-> stop]

\* What is measured and how it is handed to an append: the results file,
\* the commit, the machine specs file and the benchmark config file.
Run(results_file, commit, machine_specs_file, benchmark_config_file) ==
    [results_file |-> results_file, commit |-> commit,
     machine_specs_file |-> machine_specs_file,
     benchmark_config_file |-> benchmark_config_file]

\* The runs an append makes a result of.
GoodRuns ==
    { Run(OneCommand, "abc1234", None,
          Some(BenchmarkConfigFile(840000, 900000))),
      Run(TwoCommands, "abc1234", Some(MachineSpecsFile("m2")), None),
      Run(BareCommand, "def5678", Some(MachineSpecsFile("none")),
          Some(BenchmarkConfigFile(840000, 900000))) }

\* The runs an append fails on.
BadRuns ==
    { Run(NoResultsFile, "abc1234", None, None),
      Run(EmptyResults, "abc1234", None, None),
      Run(NoResultsKey, "abc1234", None, None),
      Run(OneCommand, "abc1234", Some(Unreadable), None),
      Run(OneCommand, "abc1234", None, Some(Unreadable)) }

\* The arguments of NightlyPhase.append for a run.
ArgsOf(run, dbcache, date_str) ==
    [results_file |-> run.results_file, commit |-> run.commit,
     dbcache |-> dbcache, date_str |-> date_str,
     benchmark_config_file |-> run.benchmark_config_file,
     machine_specs_file |-> run.machine_specs_file]

\* The arguments the appends are called with.
AppendArgs ==
    { ArgsOf(run, dbcache, date_str) :
        run \in GoodRuns, dbcache \in Dbcaches,
        date_str \in {None, Some(DateOf("1"))} }
    \cup { ArgsOf(run, 450, None) : run \in BadRuns }

\* An append_from_results_json that takes the last element of the array.
AppendFromResultsJsonLast(history, results_file, commit, benchmark_config, machine_specs, date_str) ==
    IF ~results_file.exists THEN Raise("FileNotFoundError")
    ELSE LET rs == Get(results_file.data, "results", << >>)
         IN IF rs = << >> THEN Raise("ValueError")
            ELSE LET result_data == rs[Len(rs)]
                     stddev == Get(result_data, "stddev", Some(0))
                 IN [status |-> "returned",
                     results |-> AppendResult(history,
                         NightlyResult(
                             IF date_str = None THEN Today ELSE date_str[1],
                             commit,
                             Get(result_data, "mean", 0),
                             IF stddev = None THEN 0 ELSE stddev[1],
                             Len(Get(result_data, "times", << >>)),
                             benchmark_config, machine_specs))]

\* history.append_from_results_json(...), history being the results held:
\* the results held then, or the exception raised.
AppendFromResultsJson(history, results_file, commit, benchmark_config, machine_specs, date_str) ==
    IF ~results_file.exists THEN Raise("FileNotFoundError")
    ELSE LET rs == Get(results_file.data, "results", << >>)
         IN IF rs = << >> THEN Raise("ValueError")
            ELSE LET result_data == rs[1]
                     stddev == Get(result_data, "stddev", Some(0))
                 IN [status |-> "returned",
                     results |-> AppendResult(history,
                         NightlyResult(
                             IF date_str = None THEN Today ELSE date_str[1],
                             commit,
                             Get(result_data, "mean", 0),
                             IF stddev = None THEN 0 ELSE stddev[1],
                             Len(Get(result_data, "times", << >>)),
                             benchmark_config, machine_specs))]

\* The machine specs of an append: read from the file given, or those of the
\* machine the invocation runs on (get_machine_specs).
MachineSpecsOf(machine_specs_file) ==
    IF machine_specs_file = None THEN "ryzen"
    ELSE machine_specs_file[1].machine

\* The config dict of an append: BenchmarkConfig.to_dict of the file given,
\* or the empty dict, with the dbcache and the instrumentation mode set.
ConfigDictOf(benchmark_config_file, dbcache) ==
    IF benchmark_config_file = None
    THEN [bitcoind |-> [dbcache |-> dbcache],
          instrumentation |-> "uninstrumented"]
    ELSE ConfigDict(dbcache, benchmark_config_file[1].start_height,
                    benchmark_config_file[1].stopatheight)

\* What an invocation leaves: how it ended, the results of the history it
\* held, whether it called save, and the document.
Outcome(ret, held, saved, f) ==
    [status |-> ret.status, error |-> Get(ret, "error", "none"),
     results |-> held, saved |-> saved, file |-> f]

\* An append that saves the history whether or not the result was appended.
NightlyAppendSavesAlways(f, args) ==
    LET history == Load(f)
        appended == AppendFromResultsJson(
                        history.results, args.results_file, args.commit,
                        ConfigDictOf(args.benchmark_config_file, args.dbcache),
                        MachineSpecsOf(args.machine_specs_file),
                        args.date_str)
        saved == [exists |-> TRUE, text |-> Dump(history.results)]
    IN IF history.status = "raised" THEN Outcome(history, << >>, FALSE, f)
       ELSE IF args.machine_specs_file = Some(Unreadable)
            THEN Outcome(Raise("JSONDecodeError"), history.results, TRUE,
                         saved)
       ELSE IF args.benchmark_config_file = Some(Unreadable)
            THEN Outcome(Raise("TOMLDecodeError"), history.results, TRUE,
                         saved)
       ELSE IF appended.status = "raised"
            THEN Outcome(appended, history.results, TRUE, saved)
       ELSE Outcome(appended, appended.results, TRUE,
                    [exists |-> TRUE, text |-> Dump(appended.results)])

\* NightlyPhase.append on the history file f: the history is loaded, the
\* machine specs and the config are read, the result is appended and the
\* history is saved; an exception ends it where it is raised.
NightlyAppend(f, args) ==
    LET history == Load(f)
        appended == AppendFromResultsJson(
                        history.results, args.results_file, args.commit,
                        ConfigDictOf(args.benchmark_config_file, args.dbcache),
                        MachineSpecsOf(args.machine_specs_file),
                        args.date_str)
    IN IF history.status = "raised" THEN Outcome(history, << >>, FALSE, f)
       ELSE IF args.machine_specs_file = Some(Unreadable)
            THEN Outcome(Raise("JSONDecodeError"), history.results, FALSE, f)
       ELSE IF args.benchmark_config_file = Some(Unreadable)
            THEN Outcome(Raise("TOMLDecodeError"), history.results, FALSE, f)
       ELSE IF appended.status = "raised"
            THEN Outcome(appended, history.results, FALSE, f)
       ELSE Outcome(appended, appended.results, TRUE,
                    [exists |-> TRUE, text |-> Dump(appended.results)])

\* The series keys of the results the appends can store.
StoredKeys ==
    { SeriesKeyOf(MachineSpecs(MachineSpecsOf(args.machine_specs_file)),
                  ConfigDictOf(args.benchmark_config_file, args.dbcache),
                  args.dbcache) :
        args \in {ArgsOf(run, dbcache, None) :
                     run \in GoodRuns, dbcache \in Dbcaches} }

\* series_color_index on the keys that can be stored, computed once.
ColorIndex == [key \in StoredKeys |-> SeriesColorIndex(key)]

\* A chart that lists the latest result first.
RECURSIVE GetChartDataLatestFirst(_)
GetChartDataLatestFirst(rs) ==
    IF rs = << >> THEN << >>
    ELSE GetChartDataLatestFirst(Tail(rs)) \o
         <<[date |-> rs[1].date,
            commit |-> rs[1].commit,
            mean |-> rs[1].mean,
            stddev |-> rs[1].stddev,
            config |-> IntStr(Dbcache(rs[1])),
            series_key |-> SeriesKey(rs[1]),
            series_label |-> SeriesLabel(rs[1]),
            color_index |-> ColorIndex[SeriesKey(rs[1])]]>>

\* NightlyHistory.get_chart_data, rs being the results held
RECURSIVE GetChartData(_)
GetChartData(rs) ==
    IF rs = << >> THEN << >>
    ELSE <<[date |-> rs[1].date,
            commit |-> rs[1].commit,
            mean |-> rs[1].mean,
            stddev |-> rs[1].stddev,
            config |-> IntStr(Dbcache(rs[1])),
            series_key |-> SeriesKey(rs[1]),
            series_label |-> SeriesLabel(rs[1]),
            color_index |-> ColorIndex[SeriesKey(rs[1])]]>>
         \o GetChartData(Tail(rs))

\* NightlyPhase.append, as one invocation that runs to its end
PhaseAppend(args) ==
    LET out == NightlyAppend(file, args)
    IN /\ Len(out.results) <= MaxStored
       /\ file' = out.file
       /\ results' = out.results
       /\ last' = [op |-> "nightly_append", args |-> args,
                   status |-> out.status, error |-> out.error,
                   saved |-> out.saved]
       /\ UNCHANGED <<cmp, wr, rd, proc, cfg, ser>>

\* NightlyPhase.chart: the history is loaded and its chart data is written
\* into the page
PhaseChart ==
    LET history == Load(file)
    IN /\ results' = IF history.status = "raised" THEN << >>
                     ELSE history.results
       /\ last' = IF history.status = "raised"
                  THEN [op |-> "nightly_chart", status |-> "raised",
                        error |-> history.error]
                  ELSE [op |-> "nightly_chart", status |-> "returned",
                        data |-> GetChartData(history.results)]
       /\ UNCHANGED <<cmp, file, wr, rd, proc, cfg, ser>>

\* ReportPhase.__init__ and a lookup of the report it makes: the history is
\* loaded when its file exists, and asked for the latest result of id.
ReportInit(id) ==
    LET history == Load(file)
    IN /\ results' = IF history.status = "raised" THEN << >>
                     ELSE history.results
       /\ last' = IF history.status = "raised"
                  THEN [op |-> "report", status |-> "raised",
                        error |-> history.error]
                  ELSE [op |-> "report", status |-> "returned",
                        loaded |-> file.exists, id |-> id,
                        ret |-> IF file.exists
                                THEN GetLatest(history.results, id)
                                ELSE None]
       /\ UNCHANGED <<cmp, file, wr, rd, proc, cfg, ser>>

\* cmd_nightly with the subcommand append: it calls NightlyPhase.append with
\* the keywords config and capture_machine, which append does not take, so
\* the call raises TypeError before append runs and cmd_nightly returns 1.
CmdNightlyAppend ==
    /\ last' = [op |-> "cmd_nightly", status |-> "raised",
                error |-> "TypeError", ret |-> 1]
    /\ results' = << >>
    /\ UNCHANGED <<cmp, file, wr, rd, proc, cfg, ser>>

InvocationsInit ==
    /\ file = Missing
    /\ results = << >>
    /\ last = Idle
    /\ cmp = Idle
    /\ wr = Idle
    /\ rd = Idle
    /\ proc = Idle
    /\ cfg = Idle
    /\ ser = Idle

InvocationsNext ==
    \/ \E args \in AppendArgs : PhaseAppend(args)
    \/ PhaseChart
    \/ \E id \in LookupIds : ReportInit(id)
    \/ CmdNightlyAppend

SpecInvocations == InvocationsInit /\ [][InvocationsNext]_vars

(***************************************************************************)
(* Properties of the invocations one after the other                       *)
(***************************************************************************)

\* The elements of the document on disk, none when there is no document.
Stored == IF file.exists THEN Elements(file.text) ELSE << >>

Charted == last.op = "nightly_chart" /\ last.status = "returned"

\* C24: the color index of every chart point lies in 0..9, and chart points
\* of one series key carry the same color index.
C24_ColorIndexInPalette ==
    Charted =>
        /\ \A k \in 1..Len(last.data) :
               last.data[k].color_index \in 0..(NUM_COLORS - 1)
        /\ \A j, k \in 1..Len(last.data) :
               last.data[j].series_key = last.data[k].series_key
                   => last.data[j].color_index = last.data[k].color_index

\* A chart of two points of one series, measured on different dates.
C24_Witness ==
    /\ Charted
    /\ Len(last.data) = 2
    /\ last.data[1].date # last.data[2].date
    /\ last.data[1].series_key = last.data[2].series_key
    /\ last.data[1].color_index = last.data[2].color_index
    /\ last.data[1].color_index \in 0..9

\* A chart of the document is made in this step.
ChartStep == last'.op = "nightly_chart" /\ last'.status = "returned"

\* C25: the chart data has one record per stored entry, in the order of the
\* store, with the entry's date, commit, mean and stddev and the series key,
\* series label and color index derived from it; the chart leaves the
\* results of the store and the document as they were.
C25_ChartStep ==
    ChartStep =>
        /\ Len(last'.data) = Len(Stored)
        /\ \A k \in 1..Len(Stored) :
              LET e == Stored[k]
                  point == last'.data[k]
              IN /\ point.date = e["date"]
                 /\ point.commit = e["commit"]
                 /\ point.mean = e["mean"]
                 /\ point.stddev = e["stddev"]
                 /\ point.series_key = SeriesKey(FromDict(e))
                 /\ point.series_label = SeriesLabel(FromDict(e))
                 /\ point.color_index = ColorIndex[SeriesKey(FromDict(e))]
        /\ results' = [k \in 1..Len(Stored) |-> FromDict(Stored[k])]
        /\ file' = file

C25_ChartIsProjection == [][C25_ChartStep]_vars

\* A chart of a document of two entries of different series and commits.
C25_Witness ==
    /\ Charted
    /\ Len(Stored) = 2
    /\ Len(last.data) = 2
    /\ Len(results) = 2
    /\ last.data[1].series_key # last.data[2].series_key
    /\ last.data[1].commit = Stored[1]["commit"]
    /\ last.data[2].commit = Stored[2]["commit"]
    /\ last.data[1].commit # last.data[2].commit

\* The result append_from_results_json is to make of the first element of
\* the results array for the arguments args.
OfFirstElement(r, args) ==
    LET first == args.results_file.data.results[1]
        stddev == Get(first, "stddev", Some(0))
    IN /\ r.commit = args.commit
       /\ r.mean = Get(first, "mean", 0)
       /\ r.stddev = IF stddev = None THEN 0 ELSE stddev[1]
       /\ r.runs = Len(Get(first, "times", << >>))

\* C26: an append from a results file appends one result, made of the first
\* element of the results array (its mean, its stddev, and the length of its
\* times as the sample count), whatever other elements the array holds; an
\* empty results array is an error and nothing is appended.
C26_AppendStep ==
    LET args == last'.args
        before == [k \in 1..Len(Stored) |-> FromDict(Stored[k])]
        rs == Get(args.results_file.data, "results", << >>)
    IN (last'.op = "nightly_append" /\ args.results_file.exists) =>
        /\ rs = << >> =>
              /\ last'.status = "raised"
              /\ last'.error = "ValueError"
              /\ results' = before
              /\ file' = file
        /\ last'.status = "returned" =>
              /\ rs # << >>
              /\ \E r \in Range(results') :
                    /\ OfFirstElement(r, args)
                    /\ Range(results') \subseteq Range(before) \cup {r}
                    /\ \A e \in Range(before) :
                          Triple(e) # Triple(r) => e \in Range(results')
              /\ Len(results') \in {Len(before), Len(before) + 1}

C26_FirstElementAppended == [][C26_AppendStep]_vars

\* An append from a results file of two commands has stored the mean and the
\* sample count of the first, next to a result stored before.
C26_Witness ==
    /\ last.op = "nightly_append"
    /\ last.status = "returned"
    /\ last.args.results_file = TwoCommands
    /\ Len(results) = 2
    /\ \E r \in Range(results) :
          r.mean = 300 /\ r.stddev = 0 /\ r.runs = 1
    /\ \A r \in Range(results) : r.mean # 999

\* An append from a results file whose array is empty has raised.
EmptyArrayRaised ==
    /\ last.op = "nightly_append"
    /\ last.args.results_file = EmptyResults
    /\ last.status = "raised"
    /\ Len(Stored) = 1

\* (date, cache size) of element a of a document is smaller than or equal to
\* that of element b.
ElementLeq(a, b) ==
    \/ StrLess(a["date"], b["date"])
    \/ /\ a["date"] = b["date"]
       /\ a["config"].bitcoind.dbcache <= b["config"].bitcoind.dbcache

ElementTriple(e) == <<e["date"], e["commit"], e["config"].bitcoind.dbcache>>

\* C27: from an absent document, after any sequence of invocations of
\* append, chart and report that run one after the other, the document is
\* sorted ascending by (date, cache size) and has at most one element per
\* (date, commit, cache size), and the store a chart or a report has loaded
\* is sorted and free of duplicates.
C27_DocumentSortedNoDuplicates ==
    /\ \A k \in 1..(Len(Stored) - 1) : ElementLeq(Stored[k], Stored[k + 1])
    /\ \A j, k \in 1..Len(Stored) :
          ElementTriple(Stored[j]) = ElementTriple(Stored[k]) => j = k
    /\ last.op \in {"nightly_chart", "report"} =>
          /\ \A k \in 1..(Len(results) - 1) :
                DateCacheLeq(results[k], results[k + 1])
          /\ \A j, k \in 1..Len(results) :
                Triple(results[j]) = Triple(results[k]) => j = k

\* A report has loaded a document of two results of one date, the one of
\* the smaller cache size first, and has found the latest of a cache size.
C27_Witness ==
    /\ last.op = "report"
    /\ last.status = "returned"
    /\ last.loaded
    /\ last.ret # None
    /\ Len(Stored) = 2
    /\ Len(results) = 2
    /\ results[1].date = results[2].date
    /\ Dbcache(results[1]) < Dbcache(results[2])

\* C28: an append that fails after the history was loaded (no results file,
\* no results in it, machine specs or config that cannot be read) does not
\* call save and leaves the document as it was.
C28_FailedStep ==
    (/\ last'.op = "nightly_append"
     /\ last'.status = "raised"
     /\ Load(file).status = "returned")
        => ~last'.saved /\ file' = file

C28_FailedAppendKeepsDocument == [][C28_FailedStep]_vars

\* An append has failed on machine specs it could not read, a document of
\* results being there.
C28_Witness ==
    /\ last.op = "nightly_append"
    /\ last.status = "raised"
    /\ last.error = "JSONDecodeError"
    /\ ~last.saved
    /\ Len(Stored) >= 1
    /\ results = [k \in 1..Len(Stored) |-> FromDict(Stored[k])]

====
